---- MODULE Spec2Model ----
(***************************************************************************)
(* A state-machine model of OpenWork's core: the Context history ledger,   *)
(* the path and extension predicates of Context and SandboxManager, the    *)
(* AgentLoop think/act/observe loop with its tool dispatcher and its       *)
(* observers, the SubagentManager admission gate, the spawn_subagent tool  *)
(* in a parent loop, the TaskOrchestrator with its queue and worker, the   *)
(* Contexts of a parent loop and its child loops, child loops that spawn   *)
(* on their own manager, the screening of BashTool, and the broadcast of   *)
(* the server's ConnectionManager.  Each subsystem is driven by its own    *)
(* specification over the shared state below.                              *)
(***************************************************************************)
EXTENDS Integers, Sequences, FiniteSets, TLC

VARIABLES
    \* ---- Context (agent/context.py)
    max_history_length,   \* Context.max_history_length
    allowed_paths,        \* Context.allowed_paths (list of resolved paths)
    messages,             \* Context.messages
    observations,         \* Context.observations
    appended,             \* history variable: every Message ever appended, in order
    \* ---- SandboxManager (sandbox/manager.py)
    sandbox_allowed_paths,  \* SandboxManager.config.allowed_paths
    allowed_extensions,   \* SandboxManager.config.allowed_extensions
    blocked_extensions,   \* SandboxManager.config.blocked_extensions
    path_query,           \* the last SandboxManager query and what it returned
    \* ---- AgentLoop (agent/loop.py)
    state,                \* AgentLoop.state
    pc,                   \* position of run()
    max_iterations,       \* AgentLoop.max_iterations
    iterations,           \* local counter of run()
    decision,             \* the AgentDecision of the current iteration
    result,               \* the AgentResult run() returned
    llm_calls,            \* history variable: raw replies of llm.generate in this run
    llm_messages,         \* history variable: the messages handed to llm.generate in this run
    invocations,          \* history variable: every tool.execute call of this run
    callbacks,            \* AgentLoop._callbacks (what each observer does when called)
    events,               \* history variable: the _notify_callbacks calls of this run
    received,             \* history variable: the events each observer was called with
    \* ---- SubagentManager (agent/subagent.py)
    max_concurrent,       \* SubagentManager.max_concurrent
    tasks,                \* SubagentManager.tasks
    sem_value,            \* asyncio.Semaphore._value
    sem_waiters,          \* asyncio.Semaphore._waiters (FIFO of task ids)
    sem_woken,            \* waiters whose future has been resolved
    coro,                 \* position of each execute_task coroutine
    spawns,               \* the spawn_and_wait calls made so far
    now,                  \* datetime.now(), a logical clock
    \* ---- TaskOrchestrator (agent/orchestrator.py)
    orch_tasks,           \* TaskOrchestrator.tasks
    task_queue,           \* TaskOrchestrator.task_queue (FIFO of task ids)
    running,              \* TaskOrchestrator._running
    worker_task,          \* TaskOrchestrator._worker_task: where _worker stands
    agent_loop,           \* TaskOrchestrator._agent_loop is set
    \* ---- cancel_task of either manager
    last_cancel,          \* the last cancel_task call and what it returned
    \* ---- the loops of one spawn call and the list objects they hold
    lists,                \* the heap: every list object a Context was given
    loops,                \* the parent loop and its child loops, each with its Context
    \* ---- BashTool (tools/bash_tool.py)
    bash_tool,            \* BashTool.allowed_commands and BashTool.blocked_commands
    bash_calls,           \* history variable: every BashTool.execute call and how it went
    \* ---- child loops that spawn on the SubagentManager they run under
    awaiting,             \* pairs <<t, b>>: the child loop of record t awaits spawn call b
    \* ---- ConnectionManager (server/websocket.py)
    active_connections,   \* ConnectionManager.active_connections
    broadcasts,           \* the broadcast calls: where each stands in its for loop
    delivered             \* history variable: the messages each connection was sent

ctx_vars == <<max_history_length, allowed_paths, messages, observations, appended>>
path_vars == <<sandbox_allowed_paths, allowed_extensions, blocked_extensions, path_query>>
loop_vars == <<state, pc, max_iterations, iterations, decision, result, llm_calls, llm_messages,
               invocations, callbacks, events, received>>
sub_vars == <<max_concurrent, tasks, sem_value, sem_waiters, sem_woken, coro, spawns, now>>
orch_vars == <<orch_tasks, task_queue, running, worker_task, agent_loop>>
call_vars == <<last_cancel>>
core_vars == <<ctx_vars, path_vars, loop_vars, sub_vars, orch_vars, call_vars>>
heap_vars == <<lists, loops>>
bash_vars == <<bash_tool, bash_calls>>
nest_vars == <<awaiting>>
conn_vars == <<active_connections, broadcasts, delivered>>
other_vars == <<heap_vars, bash_vars, nest_vars, conn_vars>>
vars == <<core_vars, other_vars>>

(***************************************************************************)
(* Bounds of the model                                                     *)
(***************************************************************************)
MaxCeiling == 3      \* history ceilings 1..MaxCeiling
MaxAppends == 5      \* appends made to one Context
MaxPathLen == 2      \* components of a path handed to is_path_allowed
MaxRootLen == 1      \* components of a path handed in as an allowed root
MaxRoots == 2        \* allowed roots held at once
MaxGate == 2         \* gate sizes 1..MaxGate
MaxTasks == 3        \* SubagentTask records created in all
MaxBatch == 3        \* subtasks of one spawn_and_wait call
MaxSpawnCalls == 1   \* iteration budget of a parent loop that spawns
MaxClock == 1        \* datetime.now() takes the values 0..MaxClock

\* Text values (str) are sequences of tokens, so that texts can be put together
None == <<"None">>        \* Python's None where a text may stand
EmptyString == <<"">>     \* the empty str

(***************************************************************************)
(* Python list helpers                                                     *)
(***************************************************************************)
Max(a, b) == IF a >= b THEN a ELSE b
Min(a, b) == IF a <= b THEN a ELSE b

\* s[k:] with Python's treatment of a negative or overlong start
PySliceFrom(s, k) ==
    LET start == IF k < 0 THEN Max(Len(s) + k, 0) ELSE Min(k, Len(s))
    IN  SubSeq(s, start + 1, Len(s))

SeqToSet(s) == { s[i] : i \in DOMAIN s }

\* list.remove(x): drops the first occurrence
ListRemove(s, x) ==
    LET i == CHOOSE j \in DOMAIN s : s[j] = x /\ \A k \in 1..(j - 1) : s[k] # x
    IN  SubSeq(s, 1, i - 1) \o SubSeq(s, i + 1, Len(s))

(***************************************************************************)
(* Paths.  A path is the sequence of its components below "/"; ".." is the *)
(* parent reference and /l is a symbolic link to /a in the filesystem the  *)
(* model runs against.                                                     *)
(***************************************************************************)
Components == {"a", "b", "l", ".."}

RECURSIVE PathsUpTo(_)
PathsUpTo(n) ==
    IF n = 0 THEN { <<>> }
    ELSE PathsUpTo(n - 1) \cup
         { Append(p, c) : p \in { q \in PathsUpTo(n - 1) : Len(q) = n - 1 }, c \in Components }

PathInputs == PathsUpTo(MaxPathLen)
RootInputs == PathsUpTo(MaxRootLen)

IsLink(p) == p = <<"l">>
LinkTarget(p) == <<"a">>

\* Path.resolve(): follows links and folds ".." away, left to right
RECURSIVE ResolveFrom(_, _)
ResolveFrom(done, rest) ==
    IF rest = <<>> THEN done
    ELSE LET c == Head(rest)
             d == Append(done, c)
         IN  IF c = ".."
             THEN ResolveFrom(IF done = <<>> THEN <<>> ELSE SubSeq(done, 1, Len(done) - 1),
                              Tail(rest))
             ELSE ResolveFrom(IF IsLink(d) THEN LinkTarget(d) ELSE d, Tail(rest))

Resolve(p) == ResolveFrom(<<>>, p)

\* Path.parents: the proper ancestors of a path
Parents(p) == { SubSeq(p, 1, k) : k \in 0..(Len(p) - 1) }

\* Context.is_path_allowed without the equality case
ContextPathAllowedStrict(path, allowed) ==
    LET rp == Resolve(path)
    IN  \E i \in DOMAIN allowed : allowed[i] \in Parents(rp)

\* Context.is_path_allowed
ContextPathAllowed(path, allowed) ==
    LET rp == Resolve(path)
    IN  \E i \in DOMAIN allowed : rp = allowed[i] \/ allowed[i] \in Parents(rp)

\* SandboxManager.is_path_allowed
SandboxPathAllowed(path, allowed) ==
    LET rp == Resolve(path)
    IN  IF allowed = <<>> THEN FALSE
        ELSE \E i \in DOMAIN allowed :
                \/ rp = allowed[i]
                \/ allowed[i] \in Parents(rp)
                \/ rp \in Parents(allowed[i])

(***************************************************************************)
(* Context: the history ledger                                             *)
(***************************************************************************)
Roles == {"system", "user", "assistant", "tool"}

IsSystem(m) == m.role = "system"

\* eviction that keeps the most recent window only
TrimKeepRecentOnly(msgs, ceiling) ==
    IF Len(msgs) > ceiling THEN PySliceFrom(msgs, -ceiling) ELSE msgs

\* Context._trim_history
TrimHistory(msgs, ceiling) ==
    IF Len(msgs) > ceiling
    THEN LET system_messages == SelectSeq(msgs, IsSystem)
             recent_messages == PySliceFrom(msgs, (-ceiling) + Len(system_messages))
         IN  system_messages \o recent_messages
    ELSE msgs

\* Context.get_messages_for_llm: role and content of every stored message
GetMessagesForLLM(msgs) ==
    [i \in DOMAIN msgs |-> [role |-> msgs[i].role, content |-> msgs[i].content]]

\* Message(role, content): id stands for the identity of the object created
NewMessage(role, content) == [id |-> Len(appended) + 1, role |-> role, content |-> content]

\* a synthesized text that always reports the output
ToolMessageOutputOnly(obs) == <<"Tool:", obs.tool_name, "Output:">> \o obs.output

\* the text add_observation synthesizes
ToolMessage(obs) ==
    IF obs.success THEN <<"Tool:", obs.tool_name, "Output:">> \o obs.output
    ELSE <<"Tool:", obs.tool_name, "Error:">> \o obs.error

\* the effect of Context.add_message on the ledger
AppendMessage(role, content) ==
    /\ messages' = TrimHistory(Append(messages, NewMessage(role, content)), max_history_length)
    /\ appended' = Append(appended, NewMessage(role, content))

\* an add_observation that evicts observations as it evicts messages
AppendObservationEvicting(obs) ==
    /\ observations' = TrimKeepRecentOnly(Append(observations, obs), max_history_length)
    /\ AppendMessage("tool", ToolMessage(obs))

\* the effect of Context.add_observation on the ledger
AppendObservation(obs) ==
    /\ observations' = Append(observations, obs)
    /\ AppendMessage("tool", ToolMessage(obs))

(***************************************************************************)
(* Values of the fields before their subsystem is driven                   *)
(***************************************************************************)
DefaultMaxHistory == 50      \* Context.max_history_length
DefaultMaxIterations == 20   \* AgentLoop.__init__ max_iterations
DefaultMaxConcurrent == 5    \* SubagentManager.__init__ max_concurrent

NoQuery == [callee |-> "none", path |-> <<>>, result |-> FALSE]
NoDecision == [kind |-> "none"]
NoResult == [kind |-> "none"]
NoWorker == [at |-> "none", task |-> 0]
NoTime == -1         \* completed_at = None
NoCall == [callee |-> "none", task_id |-> 0, returned |-> FALSE]

\* Context(task=""): an empty ledger with the default ceiling
CtxFresh ==
    /\ max_history_length = DefaultMaxHistory
    /\ allowed_paths = <<>>
    /\ messages = <<>>
    /\ observations = <<>>
    /\ appended = <<>>

\* SandboxConfig.allowed_extensions, .blocked_extensions and .max_file_size
DefaultAllowedExtensions ==
    {".txt", ".md", ".json", ".yaml", ".yml", ".py", ".js", ".ts", ".html", ".css",
     ".csv", ".xml", ".log", ".sh", ".bat"}
DefaultBlockedExtensions == {".exe", ".dll", ".so", ".dylib", ".bin", ".dat"}
DefaultMaxFileSize == 100 * 1024 * 1024

\* SandboxManager(): the default SandboxConfig has no allowed path
SandboxFresh ==
    /\ sandbox_allowed_paths = <<>>
    /\ allowed_extensions = DefaultAllowedExtensions
    /\ blocked_extensions = DefaultBlockedExtensions
    /\ path_query = NoQuery

\* AgentLoop.__init__: self._callbacks = []
ObserversFresh ==
    /\ callbacks = <<>>
    /\ events = <<>>
    /\ received = <<>>

\* AgentLoop.__init__
LoopFresh ==
    /\ state = "idle"
    /\ pc = "idle"
    /\ max_iterations = DefaultMaxIterations
    /\ iterations = 0
    /\ decision = NoDecision
    /\ result = NoResult
    /\ llm_calls = <<>>
    /\ llm_messages = <<>>
    /\ invocations = <<>>
    /\ ObserversFresh

\* SubagentManager.__init__
SubFresh ==
    /\ max_concurrent = DefaultMaxConcurrent
    /\ tasks = <<>>
    /\ sem_value = DefaultMaxConcurrent
    /\ sem_waiters = <<>>
    /\ sem_woken = {}
    /\ coro = <<>>
    /\ spawns = <<>>
    /\ now = 0

\* TaskOrchestrator.__init__
OrchFresh ==
    /\ orch_tasks = <<>>
    /\ task_queue = <<>>
    /\ running = FALSE
    /\ worker_task = NoWorker
    /\ agent_loop = FALSE

\* no cancel_task call was made yet
CallFresh == last_cancel = NoCall

HeapFresh == lists = <<>> /\ loops = <<>>

BashFresh == bash_tool = <<>> /\ bash_calls = <<>>

NestFresh == awaiting = {}

ConnFresh == active_connections = <<>> /\ broadcasts = <<>> /\ delivered = <<>>

\* the subsystems a specification does not drive stay as constructed
OtherFresh == HeapFresh /\ BashFresh /\ NestFresh /\ ConnFresh

(***************************************************************************)
(* SpecContext: a Context driven by add_message / add_observation          *)
(***************************************************************************)
Texts == { <<"text">> }

\* the observations handed to add_observation
SampleObservations ==
    { [tool_name |-> "file", input_params |-> <<>>, output |-> <<"out">>, success |-> TRUE,
       error |-> None],
      [tool_name |-> "file", input_params |-> <<>>, output |-> None, success |-> FALSE,
       error |-> <<"err">>] }

\* Context(task, max_history_length=C): __post_init__ appends the task as a
\* user message when the task is not empty
InitContext ==
    /\ max_history_length \in 1..MaxCeiling
    /\ allowed_paths = <<>>
    /\ observations = <<>>
    /\ \E task \in {EmptyString, <<"task">>} :
          LET first == [id |-> 1, role |-> "user", content |-> task]
          IN  /\ messages = IF task = EmptyString THEN <<>> ELSE TrimHistory(<<first>>, max_history_length)
              /\ appended = IF task = EmptyString THEN <<>> ELSE <<first>>
    /\ SandboxFresh /\ LoopFresh /\ SubFresh /\ OrchFresh /\ CallFresh /\ OtherFresh

\* Context.add_message
add_message(role, content) ==
    /\ Len(appended) < MaxAppends
    /\ AppendMessage(role, content)
    /\ UNCHANGED <<max_history_length, allowed_paths, observations>>
    /\ UNCHANGED <<path_vars, loop_vars, sub_vars, orch_vars, call_vars, other_vars>>

\* Context.add_observation
add_observation(obs) ==
    /\ Len(appended) < MaxAppends
    /\ AppendObservation(obs)
    /\ UNCHANGED <<max_history_length, allowed_paths>>
    /\ UNCHANGED <<path_vars, loop_vars, sub_vars, orch_vars, call_vars, other_vars>>

NextContext ==
    \/ \E role \in Roles, content \in Texts : add_message(role, content)
    \/ \E obs \in SampleObservations : add_observation(obs)

SpecContext == InitContext /\ [][NextContext]_vars

(***************************************************************************)
(* SpecSandbox: a SandboxManager whose allowed list is edited and queried  *)
(***************************************************************************)
InitSandbox ==
    /\ CtxFresh /\ SandboxFresh /\ LoopFresh /\ SubFresh /\ OrchFresh /\ CallFresh
    /\ OtherFresh

\* SandboxManager.add_allowed_path
add_allowed_path(p) ==
    /\ Len(sandbox_allowed_paths) < MaxRoots
    /\ sandbox_allowed_paths' =
          IF Resolve(p) \notin SeqToSet(sandbox_allowed_paths)
          THEN Append(sandbox_allowed_paths, Resolve(p))
          ELSE sandbox_allowed_paths
    /\ path_query' = NoQuery
    /\ UNCHANGED <<allowed_extensions, blocked_extensions>>
    /\ UNCHANGED <<ctx_vars, loop_vars, sub_vars, orch_vars, call_vars, other_vars>>

\* SandboxManager.remove_allowed_path
remove_allowed_path(p) ==
    /\ sandbox_allowed_paths' =
          IF Resolve(p) \in SeqToSet(sandbox_allowed_paths)
          THEN ListRemove(sandbox_allowed_paths, Resolve(p))
          ELSE sandbox_allowed_paths
    /\ path_query' = NoQuery
    /\ UNCHANGED <<allowed_extensions, blocked_extensions>>
    /\ UNCHANGED <<ctx_vars, loop_vars, sub_vars, orch_vars, call_vars, other_vars>>

\* a call of SandboxManager.is_path_allowed, its answer kept in path_query
sandbox_is_path_allowed(p) ==
    /\ path_query' = [callee |-> "sandbox", path |-> p,
                      result |-> SandboxPathAllowed(p, sandbox_allowed_paths)]
    /\ UNCHANGED <<sandbox_allowed_paths, allowed_extensions, blocked_extensions>>
    /\ UNCHANGED <<ctx_vars, loop_vars, sub_vars, orch_vars, call_vars, other_vars>>

NextSandbox ==
    \/ \E p \in RootInputs : add_allowed_path(p)
    \/ \E p \in RootInputs : remove_allowed_path(p)
    \/ \E p \in PathInputs : sandbox_is_path_allowed(p)

SpecSandbox == InitSandbox /\ [][NextSandbox]_vars

(***************************************************************************)
(* SpecExtension: is_extension_allowed and validate_path of a              *)
(* SandboxManager whose SandboxConfig lists extensions of either case      *)
(***************************************************************************)
\* the file names of the paths asked about, and the extensions a
\* SandboxConfig may list
FileNames == {"f", "f.txt", "f.exe", "f.EXE"}
Extensions == {".txt", ".exe", ".EXE"}

\* PurePath.suffix of a path: the last dot of the final component and what
\* follows it, the empty string when there is none
Suffix(p) ==
    IF p = <<>> THEN ""
    ELSE CASE p[Len(p)] = "f.txt" -> ".txt"
           [] p[Len(p)] = "f.exe" -> ".exe"
           [] p[Len(p)] = "f.EXE" -> ".EXE"
           [] OTHER -> ""

\* str.lower()
Lower(ext) == IF ext = ".EXE" THEN ".exe" ELSE ext

\* SandboxManager.is_extension_allowed
ExtensionAllowed(p, allowed, blocked) ==
    LET ext == Lower(Suffix(p))
    IN  IF ext \in blocked THEN FALSE
        ELSE IF allowed # {} THEN ext \in allowed \/ ext = ""
        ELSE TRUE

\* what the filesystem holds at a path when validate_path looks: nothing, a
\* directory, or a regular file of some size
FileKinds == {"missing", "dir", "file"}
FileSizes == {0, DefaultMaxFileSize, DefaultMaxFileSize + 1}

\* SandboxManager.validate_path: the pair (is_valid, error_message)
ValidatePath(p, kind, size, roots, allowed, blocked) ==
    LET rp == Resolve(p)
    IN  IF ~SandboxPathAllowed(rp, roots)
        THEN [valid |-> FALSE, error |-> <<"Path not in allowed directories:">> \o rp]
        ELSE IF kind = "file" /\ ~ExtensionAllowed(rp, allowed, blocked)
        THEN [valid |-> FALSE, error |-> <<"File extension not allowed:", Suffix(rp)>>]
        ELSE IF kind = "file" /\ size > DefaultMaxFileSize
        THEN [valid |-> FALSE, error |-> <<"File exceeds size limit:", ToString(size)>>]
        ELSE [valid |-> TRUE, error |-> None]

\* the paths asked about: a file name in /a or in /b
ExtensionPaths == { <<d, n>> : d \in {"a", "b"}, n \in FileNames }

\* SandboxManager(SandboxConfig(allowed_paths, allowed_extensions,
\* blocked_extensions))
InitExtension ==
    /\ CtxFresh /\ LoopFresh /\ SubFresh /\ OrchFresh /\ CallFresh /\ OtherFresh
    /\ sandbox_allowed_paths \in { <<>>, << <<"a">> >> }
    /\ allowed_extensions \in SUBSET Extensions
    /\ blocked_extensions \in SUBSET Extensions
    /\ path_query = NoQuery

\* a call of SandboxManager.is_extension_allowed, its answer kept in
\* path_query
is_extension_allowed(p) ==
    /\ path_query' = [callee |-> "extension", path |-> p,
                      result |-> ExtensionAllowed(p, allowed_extensions, blocked_extensions)]
    /\ UNCHANGED <<sandbox_allowed_paths, allowed_extensions, blocked_extensions>>
    /\ UNCHANGED <<ctx_vars, loop_vars, sub_vars, orch_vars, call_vars, other_vars>>

\* a call of SandboxManager.validate_path against a filesystem that holds
\* kind (of size bytes) at the path, its answer kept in path_query
validate_path(p, kind, size) ==
    /\ kind # "file" => size = 0
    /\ LET v == ValidatePath(p, kind, size, sandbox_allowed_paths,
                             allowed_extensions, blocked_extensions)
       IN  path_query' = [callee |-> "validate", path |-> p, kind |-> kind, size |-> size,
                          result |-> v.valid, error |-> v.error]
    /\ UNCHANGED <<sandbox_allowed_paths, allowed_extensions, blocked_extensions>>
    /\ UNCHANGED <<ctx_vars, loop_vars, sub_vars, orch_vars, call_vars, other_vars>>

NextExtension ==
    \/ \E p \in ExtensionPaths : is_extension_allowed(p)
    \/ \E p \in ExtensionPaths, kind \in FileKinds, size \in FileSizes :
          validate_path(p, kind, size)

SpecExtension == InitExtension /\ [][NextExtension]_vars

(***************************************************************************)
(* SpecContextPath: Context.is_path_allowed over the roots run() installs  *)
(***************************************************************************)
\* the lists [Path(p).resolve() for p in allowed_paths] of at most n roots
RECURSIVE RootListsUpTo(_)
RootListsUpTo(n) ==
    IF n = 0 THEN { <<>> }
    ELSE RootListsUpTo(n - 1) \cup
         { Append(l, Resolve(p)) : l \in { m \in RootListsUpTo(n - 1) : Len(m) = n - 1 },
                                   p \in RootInputs }

InitContextPath ==
    /\ max_history_length = DefaultMaxHistory
    /\ allowed_paths \in RootListsUpTo(MaxRoots)
    /\ messages = << [id |-> 1, role |-> "user", content |-> <<"task">>] >>
    /\ appended = messages
    /\ observations = <<>>
    /\ SandboxFresh /\ LoopFresh /\ SubFresh /\ OrchFresh /\ CallFresh /\ OtherFresh

\* a call of Context.is_path_allowed, its answer kept in path_query
context_is_path_allowed(p) ==
    /\ path_query' = [callee |-> "context", path |-> p,
                      result |-> ContextPathAllowed(p, allowed_paths)]
    /\ UNCHANGED <<sandbox_allowed_paths, allowed_extensions, blocked_extensions>>
    /\ UNCHANGED <<ctx_vars, loop_vars, sub_vars, orch_vars, call_vars, other_vars>>

NextContextPath == \E p \in PathInputs : context_is_path_allowed(p)

SpecContextPath == InitContextPath /\ [][NextContextPath]_vars

(***************************************************************************)
(* AgentLoop: the registry, the replies of the model backend and their     *)
(* parse                                                                   *)
(***************************************************************************)
MaxBudget == 3       \* iteration budgets 0..MaxBudget

\* self.tools: the registered tools and their requires_path_check flag
Tools ==
    [file |-> [requires_path_check |-> TRUE],
     bash |-> [requires_path_check |-> TRUE],
     web  |-> [requires_path_check |-> FALSE],
     spawn_subagent |-> [requires_path_check |-> FALSE]]

NoTool == "None"     \* Python's None where a tool name may stand

\* parameter mappings are [isdict |-> TRUE, items |-> the dict] and anything
\* else the JSON may hold under "params" is [isdict |-> FALSE]
Dict(items) == [isdict |-> TRUE, items |-> items]
EmptyDict == Dict(<<>>)
NotADict == [isdict |-> FALSE, items |-> <<>>]

\* dict.get(key, default)
DictGet(d, key, default) == IF key \in DOMAIN d THEN d[key] ELSE default

\* the paths decisions name, written as strings under /
InsidePath == <<"a", "b">>           \* /a/b
LinkedPath == <<"l", "b">>           \* /l/b, which is /a/b
OutsidePath == <<"b">>               \* /b
EscapingPath == <<"a", "..", "b">>   \* /a/../b, which is /b

\* raw replies of llm.generate
RawText == <<"All", "done">>
RawArray == <<"[1, 2]">>
RawDone == <<"{is_complete: true, answer: Done}">>
RawDoneNoAnswer == <<"{is_complete: true}">>
RawThought == <<"{thought: hmm}">>
RawFileInside == <<"{tool: file, params: {path: /l/b}}">>
RawFileOutside == <<"{tool: file, params: {path: /a/../b}}">>
RawFileOutsideAlt == <<"{tool: file, params: {path: '', file_path: /b}}">>
RawFileNoPath == <<"{tool: file, params: {}}">>
RawBashOutside == <<"{tool: bash, params: {command: ls, working_dir: /b}}">>
RawWeb == <<"{tool: web, params: {url: u}}">>
RawUnknownTool == <<"{tool: nope, params: {path: /a/b}}">>
RawBadParams == <<"{tool: file, params: [1]}">>
RawDoneWithTool == <<"{tool: file, params: {path: /a/b}, is_complete: true}">>

\* the subtasks lists a spawn_subagent decision carries: n entries with a
\* description, a list whose second entry has none, or no list at all
SubtaskCap == 10
Entry == [description |-> <<"d">>]
BadEntry == [context |-> <<"c">>]
Subtasks(n) == [i \in 1..n |-> Entry]
SpawnSizes == (0..MaxBatch) \cup {SubtaskCap + 1}
RawSpawn(n) ==
    <<"{tool: spawn_subagent, params: {subtasks: [{description: d}, ...]}}", ToString(n)>>
RawSpawnBadEntry ==
    <<"{tool: spawn_subagent, params: {subtasks: [{description: d}, {context: c}]}}">>
RawSpawnNoList == <<"{tool: spawn_subagent, params: {}}">>

SpawnReplies ==
    { RawSpawn(n) : n \in SpawnSizes } \cup { RawSpawnBadEntry, RawSpawnNoList, RawDone }

Replies ==
    { RawText, RawArray, RawDone, RawDoneNoAnswer, RawThought,
      RawFileInside, RawFileOutside, RawFileOutsideAlt, RawFileNoPath, RawBashOutside,
      RawWeb, RawUnknownTool, RawBadParams, RawDoneWithTool }

JsonInvalid == [type |-> "invalid"]
JsonObject(data) == [type |-> "object", data |-> data]

\* json.loads(response): JsonInvalid stands for JSONDecodeError
JsonLoads(raw) ==
    CASE raw = RawText -> JsonInvalid
      [] raw = RawArray -> [type |-> "array"]
      [] raw = RawDone -> JsonObject([is_complete |-> TRUE, answer |-> <<"Done">>])
      [] raw = RawDoneNoAnswer -> JsonObject([is_complete |-> TRUE])
      [] raw = RawThought -> JsonObject([thought |-> <<"hmm">>])
      [] raw = RawFileInside ->
            JsonObject([tool |-> "file", params |-> Dict([path |-> LinkedPath])])
      [] raw = RawFileOutside ->
            JsonObject([tool |-> "file", params |-> Dict([path |-> EscapingPath])])
      [] raw = RawFileOutsideAlt ->
            JsonObject([tool |-> "file",
                        params |-> Dict([path |-> EmptyString, file_path |-> OutsidePath])])
      [] raw = RawFileNoPath -> JsonObject([tool |-> "file", params |-> EmptyDict])
      [] raw = RawBashOutside ->
            JsonObject([tool |-> "bash",
                        params |-> Dict([command |-> <<"ls">>, working_dir |-> OutsidePath])])
      [] raw = RawWeb -> JsonObject([tool |-> "web", params |-> Dict([url |-> <<"u">>])])
      [] raw = RawUnknownTool ->
            JsonObject([tool |-> "nope", params |-> Dict([path |-> InsidePath])])
      [] raw = RawBadParams -> JsonObject([tool |-> "file", params |-> NotADict])
      [] raw = RawDoneWithTool ->
            JsonObject([tool |-> "file", params |-> Dict([path |-> InsidePath]),
                        is_complete |-> TRUE])
      [] raw = RawSpawnBadEntry ->
            JsonObject([tool |-> "spawn_subagent",
                        params |-> Dict([subtasks |-> <<Entry, BadEntry>>])])
      [] raw = RawSpawnNoList -> JsonObject([tool |-> "spawn_subagent", params |-> EmptyDict])
      [] \E n \in SpawnSizes : raw = RawSpawn(n) ->
            JsonObject([tool |-> "spawn_subagent",
                        params |-> Dict([subtasks |->
                                           Subtasks(CHOOSE n \in SpawnSizes : raw = RawSpawn(n))])])

\* truth value of a text that may be None or empty
TruthyText(t) == t # None /\ t # EmptyString

\* the decision _get_decision builds; iteration is the iteration that asked for it
ParsedDecision(data, k) ==
    [kind |-> "decision",
     iteration |-> k,
     thought |-> DictGet(data, "thought", EmptyString),
     tool_name |-> DictGet(data, "tool", NoTool),
     tool_params |-> DictGet(data, "params", EmptyDict),
     is_complete |-> DictGet(data, "is_complete", FALSE),
     final_answer |-> DictGet(data, "answer", None)]

\* the decision _get_decision falls back to on JSONDecodeError
FallbackDecision(raw, k) ==
    [kind |-> "decision",
     iteration |-> k,
     thought |-> raw,
     tool_name |-> NoTool,
     tool_params |-> EmptyDict,
     is_complete |-> TRUE,
     final_answer |-> raw]

\* what _get_decision does with a raw reply: a decision, or the fault that
\* data.get raises when the JSON value is not an object
GetDecision(raw, k) ==
    LET parsed == JsonLoads(raw)
    IN  CASE parsed.type = "invalid" -> [fault |-> FALSE, decision |-> FallbackDecision(raw, k)]
          [] parsed.type = "object" -> [fault |-> FALSE, decision |-> ParsedDecision(parsed.data, k)]
          [] OTHER -> [fault |-> TRUE, error |-> <<"AttributeError">>]

(***************************************************************************)
(* AgentLoop._execute_tool: the dispatcher                                 *)
(***************************************************************************)
ToolResult(success, output, error) == [success |-> success, output |-> output, error |-> error]

HasTruthy(items, key) == key \in DOMAIN items /\ items[key] # EmptyString

\* params.get('path') or params.get('file_path')
PathParam(items) ==
    IF HasTruthy(items, "path") THEN items["path"]
    ELSE DictGet(items, "file_path", None)

\* the outcomes of tool.execute(**params)
ToolOutcomes == {"ok", "failed", "raised"}

ToolFault == <<"tool", "fault">>     \* str(e) of the exception a tool body raises

\* the two ways a call ends
Returns(value) == [raised |-> FALSE, result |-> value]
Raises(error) == [raised |-> TRUE, error |-> error]

\* how tool.execute(**params) ends once the body is entered, given how it went
ExecuteBody(outcome) ==
    CASE outcome = "ok" -> Returns(ToolResult(TRUE, <<"out">>, None))
      [] outcome = "failed" -> Returns(ToolResult(FALSE, None, <<"tool", "error">>))
      [] outcome = "raised" -> Raises(ToolFault)

\* tool.execute(**params): ** on a value that is not a mapping raises
\* TypeError before the body is entered
CallExecute(params, outcome) ==
    IF params.isdict THEN ExecuteBody(outcome) ELSE Raises(<<"TypeError">>)

\* a call of the tool with no try block around it
TryExecuteUnguarded(call) ==
    IF call.raised THEN [fault |-> TRUE, error |-> call.error]
    ELSE [fault |-> FALSE, result |-> call.result]

\* try: return await tool.execute(**params)
\* except Exception as e: return ToolResult(success=False, output=None, error=str(e))
TryExecute(call) ==
    IF call.raised THEN [fault |-> FALSE, result |-> ToolResult(FALSE, None, call.error)]
    ELSE [fault |-> FALSE, result |-> call.result]

\* an unknown-tool result that does not say which tool was asked for
UnknownToolAnonymous(tool_name) == ToolResult(FALSE, None, <<"Unknown tool">>)

\* ToolResult(success=False, output=None, error=f"Unknown tool: {tool_name}")
UnknownTool(tool_name) == ToolResult(FALSE, None, <<"Unknown tool:", tool_name>>)

\* a dispatcher that lets the tool run whatever path its parameters name
ExecuteToolUnchecked(tool_name, params, allowed, outcome) ==
    IF tool_name \notin DOMAIN Tools
    THEN [fault |-> FALSE, invoked |-> FALSE, path_checked |-> FALSE,
          result |-> UnknownTool(tool_name)]
    ELSE IF Tools[tool_name].requires_path_check /\ ~params.isdict
    THEN [fault |-> TRUE, invoked |-> FALSE, path_checked |-> FALSE,
          error |-> <<"AttributeError">>]
    ELSE TryExecute(CallExecute(params, outcome)) @@
         [invoked |-> params.isdict, path_checked |-> FALSE]

\* AgentLoop._execute_tool.  fault: an exception leaves the dispatcher;
\* invoked: the tool body was entered; path_checked: is_path_allowed was
\* evaluated on a path-bearing parameter and answered allowed.
ExecuteTool(tool_name, params, allowed, outcome) ==
    IF tool_name \notin DOMAIN Tools
    THEN [fault |-> FALSE, invoked |-> FALSE, path_checked |-> FALSE,
          result |-> UnknownTool(tool_name)]
    ELSE IF Tools[tool_name].requires_path_check /\ ~params.isdict
    THEN \* params.get on a value that is not a dict, outside the try block
         [fault |-> TRUE, invoked |-> FALSE, path_checked |-> FALSE,
          error |-> <<"AttributeError">>]
    ELSE IF /\ Tools[tool_name].requires_path_check
            /\ TruthyText(PathParam(params.items))
            /\ ~ContextPathAllowed(PathParam(params.items), allowed)
    THEN [fault |-> FALSE, invoked |-> FALSE, path_checked |-> FALSE,
          result |-> ToolResult(FALSE, None,
                                <<"Path not allowed:">> \o PathParam(params.items))]
    ELSE TryExecute(CallExecute(params, outcome)) @@
         [invoked |-> params.isdict,
          path_checked |-> /\ Tools[tool_name].requires_path_check
                           /\ TruthyText(PathParam(params.items))]

(***************************************************************************)
(* Spec: one AgentLoop.run                                                 *)
(***************************************************************************)
\* the allowed_paths arguments of run(), as written by the caller
RunPathArgs == { <<>>, << <<"l">> >> }

\* f"Max iterations ({self.max_iterations}) reached"
MaxIterationsError(n) == <<"Max iterations", ToString(n), "reached">>

AgentResult(success, output, obs, error, k) ==
    [kind |-> "result", success |-> success, output |-> output, observations |-> obs,
     error |-> error, iterations |-> k]

\* while iterations < self.max_iterations, off by one
WithinBudgetInclusive(k, budget) == k <= budget

\* while iterations < self.max_iterations
WithinBudget(k, budget) == k < budget

\* a completion test that asks for a clean trace as well
IsCompleteAndClean(d) == d.is_complete /\ \A i \in DOMAIN observations : observations[i].success

\* a completion test that gives way to a tool the decision names
IsCompleteWithoutTool(d) == d.is_complete /\ d.tool_name \in {NoTool, ""}

\* if decision.is_complete
IsComplete(d) == d.is_complete

\* a tool test that takes None for a name
NamesToolOrNone(d) == d.tool_name # ""

\* if decision.tool_name
NamesTool(d) == d.tool_name # NoTool /\ d.tool_name # ""

\* AgentLoop(llm, tools, max_iterations=N)
Init ==
    /\ CtxFresh /\ SandboxFresh /\ SubFresh /\ OrchFresh /\ CallFresh /\ OtherFresh
    /\ state = "idle"
    /\ pc = "idle"
    /\ max_iterations \in 0..MaxBudget
    /\ iterations = 0
    /\ decision = NoDecision
    /\ result = NoResult
    /\ llm_calls = <<>>
    /\ llm_messages = <<>>
    /\ invocations = <<>>
    /\ ObserversFresh

\* the lifecycle events run() hands to _notify_callbacks, with their data
ThinkingEvent(k) == [name |-> "thinking", iteration |-> k]
ExecutingEvent(tool_name, params) == [name |-> "executing", tool |-> tool_name, params |-> params]
CompleteEvent(answer) == [name |-> "complete", answer |-> answer]
ErrorEvent(error) == [name |-> "error", error |-> error]

\* what an observer does when it is called
ObserverKinds == {"returns", "raises"}

\* a notification with no try block: the first observer that raises ends it
NotifyCallbacksUnguarded(cbs, got, event) ==
    [i \in DOMAIN cbs |->
        IF \E j \in 1..(i - 1) : cbs[j] = "raises" THEN got[i] ELSE Append(got[i], event)]

\* AgentLoop._notify_callbacks: every observer is called with the event, in
\* registration order, and what it raises is dropped
NotifyCallbacks(cbs, got, event) == [i \in DOMAIN cbs |-> Append(got[i], event)]

\* await self._notify_callbacks(event, data)
Notify(event) ==
    /\ events' = Append(events, event)
    /\ received' = NotifyCallbacks(callbacks, received, event)
    /\ UNCHANGED callbacks

\* the step notifies nobody
Silent == UNCHANGED <<callbacks, events, received>>

\* run(): Context(task, allowed_paths) and the system prompt, up to the loop
Run(task, paths) ==
    /\ pc = "idle"
    /\ max_history_length' = DefaultMaxHistory
    /\ allowed_paths' = [i \in DOMAIN paths |-> Resolve(paths[i])]
    /\ LET user == [id |-> 1, role |-> "user", content |-> task]
           system == [id |-> 2, role |-> "system", content |-> <<"SYSTEM_PROMPT">>]
       IN  /\ messages' = TrimHistory(<<user, system>>, DefaultMaxHistory)
           /\ appended' = <<user, system>>
    /\ observations' = <<>>
    /\ iterations' = 0
    /\ pc' = "loop"
    /\ Silent
    /\ UNCHANGED <<state, max_iterations, decision, result, llm_calls, llm_messages,
                   invocations>>
    /\ UNCHANGED <<path_vars, sub_vars, orch_vars, call_vars, other_vars>>

\* the head of an iteration: the budget test, the counter, state THINKING
BeginIteration ==
    /\ pc = "loop"
    /\ WithinBudget(iterations, max_iterations)
    /\ iterations' = iterations + 1
    /\ state' = "thinking"
    /\ Notify(ThinkingEvent(iterations + 1))
    /\ pc' = "generate"
    /\ UNCHANGED <<max_iterations, decision, result, llm_calls, llm_messages, invocations>>
    /\ UNCHANGED <<ctx_vars, path_vars, sub_vars, orch_vars, call_vars, other_vars>>

\* the loop falls through: the 'Max iterations reached' result
BudgetExceeded ==
    /\ pc = "loop"
    /\ ~WithinBudget(iterations, max_iterations)
    /\ state' = "error"
    /\ result' = AgentResult(FALSE, EmptyString, observations,
                             MaxIterationsError(max_iterations), iterations)
    /\ pc' = "returned"
    /\ Silent
    /\ UNCHANGED <<max_iterations, iterations, decision, llm_calls, llm_messages,
                   invocations>>
    /\ UNCHANGED <<ctx_vars, path_vars, sub_vars, orch_vars, call_vars, other_vars>>

\* an except branch that hands back an empty trace
AbortWithoutTrace(error) ==
    /\ state' = "error"
    /\ Notify(ErrorEvent(error))
    /\ result' = AgentResult(FALSE, EmptyString, <<>>, error, iterations)
    /\ pc' = "returned"

\* the except branch of run()
Abort(error) ==
    /\ state' = "error"
    /\ Notify(ErrorEvent(error))
    /\ result' = AgentResult(FALSE, EmptyString, observations, error, iterations)
    /\ pc' = "returned"

\* llm.generate returns raw; _get_decision parses it and run() branches on
\* the decision
Generate(raw) ==
    /\ pc = "generate"
    /\ llm_calls' = Append(llm_calls, raw)
    /\ llm_messages' = Append(llm_messages, GetMessagesForLLM(messages))
    /\ LET got == GetDecision(raw, iterations)
       IN  IF got.fault
           THEN Abort(got.error) /\ UNCHANGED decision
           ELSE /\ decision' = got.decision
                /\ IF IsComplete(got.decision)
                   THEN /\ state' = "complete"
                        /\ Notify(CompleteEvent(got.decision.final_answer))
                        /\ result' = AgentResult(TRUE,
                                        IF TruthyText(got.decision.final_answer)
                                        THEN got.decision.final_answer
                                        ELSE <<"Task completed.">>,
                                        observations, None, iterations)
                        /\ pc' = "returned"
                   ELSE IF NamesTool(got.decision)
                   THEN /\ state' = "executing"
                        /\ Notify(ExecutingEvent(got.decision.tool_name,
                                                 got.decision.tool_params))
                        /\ pc' = "execute"
                        /\ UNCHANGED result
                   ELSE /\ pc' = "loop"
                        /\ Silent
                        /\ UNCHANGED <<state, result>>
    /\ UNCHANGED <<max_iterations, iterations, invocations>>
    /\ UNCHANGED <<ctx_vars, path_vars, sub_vars, orch_vars, call_vars, other_vars>>

LLMFault == <<"llm.generate raised">>

\* llm.generate raises
GenerateRaises ==
    /\ pc = "generate"
    /\ llm_calls' = Append(llm_calls, LLMFault)
    /\ llm_messages' = Append(llm_messages, GetMessagesForLLM(messages))
    /\ Abort(<<"llm", "fault">>)
    /\ UNCHANGED <<max_iterations, iterations, decision, invocations>>
    /\ UNCHANGED <<ctx_vars, path_vars, sub_vars, orch_vars, call_vars, other_vars>>

\* _execute_tool on the decision's tool, then the Observation
Execute(outcome) ==
    /\ pc = "execute"
    /\ decision.tool_name # "spawn_subagent"
    /\ LET done == ExecuteTool(decision.tool_name, decision.tool_params, allowed_paths, outcome)
       IN  /\ invocations' =
                 IF done.invoked
                 THEN Append(invocations,
                             [tool |-> decision.tool_name,
                              params |-> decision.tool_params,
                              path_checked |-> done.path_checked,
                              iteration |-> iterations,
                              outcome |-> outcome])
                 ELSE invocations
           /\ IF done.fault
              THEN /\ Abort(done.error)
                   /\ UNCHANGED ctx_vars
              ELSE
                /\ AppendObservation(
                      [tool_name |-> decision.tool_name,
                       input_params |-> decision.tool_params,
                       output |-> IF done.result.success THEN done.result.output ELSE None,
                       success |-> done.result.success,
                       error |-> done.result.error])
                /\ pc' = "loop"
                /\ Silent
                /\ UNCHANGED <<max_history_length, allowed_paths, state, result>>
    /\ UNCHANGED <<max_iterations, iterations, decision, llm_calls, llm_messages>>
    /\ UNCHANGED <<path_vars, sub_vars, orch_vars, call_vars, other_vars>>

\* run() is called again on the same AgentLoop after it returned, as
\* TaskOrchestrator does for every task it takes: the Context, the counter
\* and the decision are locals of the new call, self.state is what the last
\* run left
RunAgain(task, paths) ==
    /\ pc = "returned"
    /\ max_history_length' = DefaultMaxHistory
    /\ allowed_paths' = [i \in DOMAIN paths |-> Resolve(paths[i])]
    /\ LET user == [id |-> 1, role |-> "user", content |-> task]
           system == [id |-> 2, role |-> "system", content |-> <<"SYSTEM_PROMPT">>]
       IN  /\ messages' = TrimHistory(<<user, system>>, DefaultMaxHistory)
           /\ appended' = <<user, system>>
    /\ observations' = <<>>
    /\ iterations' = 0
    /\ decision' = NoDecision
    /\ result' = NoResult
    /\ llm_calls' = <<>>
    /\ llm_messages' = <<>>
    /\ invocations' = <<>>
    /\ events' = <<>>
    /\ received' = [i \in DOMAIN callbacks |-> <<>>]
    /\ pc' = "loop"
    /\ UNCHANGED <<state, max_iterations, callbacks>>
    /\ UNCHANGED <<path_vars, sub_vars, orch_vars, call_vars, other_vars>>

Next ==
    \/ \E paths \in RunPathArgs : Run(<<"task">>, paths)
    \/ \E paths \in RunPathArgs : RunAgain(<<"task">>, paths)
    \/ BeginIteration
    \/ BudgetExceeded
    \/ \E raw \in Replies : Generate(raw)
    \/ GenerateRaises
    \/ \E outcome \in ToolOutcomes : Execute(outcome)

Spec == Init /\ [][Next]_vars

(***************************************************************************)
(* SpecObservers: one AgentLoop.run with observers registered              *)
(***************************************************************************)
MaxObservers == 2    \* callbacks registered on one loop
MaxObserved == 2     \* iteration budgets 0..MaxObserved of an observed run

\* AgentLoop(llm, tools, max_iterations=N)
InitObservers ==
    /\ CtxFresh /\ SandboxFresh /\ SubFresh /\ OrchFresh /\ CallFresh /\ OtherFresh
    /\ state = "idle"
    /\ pc = "idle"
    /\ max_iterations \in 0..MaxObserved
    /\ iterations = 0
    /\ decision = NoDecision
    /\ result = NoResult
    /\ llm_calls = <<>>
    /\ llm_messages = <<>>
    /\ invocations = <<>>
    /\ ObserversFresh

\* AgentLoop.add_callback, before the run
add_callback(kind) ==
    /\ pc = "idle"
    /\ Len(callbacks) < MaxObservers
    /\ callbacks' = Append(callbacks, kind)
    /\ received' = Append(received, <<>>)
    /\ UNCHANGED <<state, pc, max_iterations, iterations, decision, result, llm_calls,
                   llm_messages, invocations, events>>
    /\ UNCHANGED <<ctx_vars, path_vars, sub_vars, orch_vars, call_vars, other_vars>>

NextObservers ==
    \/ \E kind \in ObserverKinds : add_callback(kind)
    \/ \E paths \in RunPathArgs : Run(<<"task">>, paths)
    \/ BeginIteration
    \/ BudgetExceeded
    \/ \E raw \in Replies : Generate(raw)
    \/ GenerateRaises
    \/ \E outcome \in ToolOutcomes : Execute(outcome)

SpecObservers == InitObservers /\ [][NextObservers]_vars

(***************************************************************************)
(* SubagentManager: the admission gate (asyncio.Semaphore) and the         *)
(* execute_task coroutines asyncio.gather runs                             *)
(***************************************************************************)

TaskIds == 1..MaxTasks
Terminal == {"completed", "failed", "cancelled"}

\* Semaphore.locked() that never reports the gate as taken
LockedNever(value, waiters) == FALSE

\* Semaphore.locked(): no permit left, or somebody is queued already
Locked(value, waiters) == value = 0 \/ waiters # <<>>

\* the last waiter whose future is still pending, 0 if there is none
LastPending(waiters, woken) ==
    IF \E i \in DOMAIN waiters : waiters[i] \notin woken
    THEN waiters[CHOOSE i \in DOMAIN waiters :
                    /\ waiters[i] \notin woken
                    /\ \A j \in (i + 1)..Len(waiters) : waiters[j] \in woken]
    ELSE 0

\* the first waiter whose future is still pending, 0 if there is none
FirstPending(waiters, woken) ==
    IF \E i \in DOMAIN waiters : waiters[i] \notin woken
    THEN waiters[CHOOSE i \in DOMAIN waiters :
                    /\ waiters[i] \notin woken
                    /\ \A j \in 1..(i - 1) : waiters[j] \in woken]
    ELSE 0

\* Semaphore._wake_up_next that wakes nobody
WakeUpNobody(value, waiters, woken) == [value |-> value, woken |-> woken]

\* Semaphore._wake_up_next: hands a permit to the first pending waiter
WakeUpNext(value, waiters, woken) ==
    IF FirstPending(waiters, woken) = 0
    THEN [value |-> value, woken |-> woken]
    ELSE [value |-> value - 1, woken |-> woken \cup {FirstPending(waiters, woken)}]

\* Semaphore.release(), run by __aexit__ of 'async with self._semaphore'
Release ==
    LET after == WakeUpNext(sem_value + 1, sem_waiters, sem_woken)
    IN  /\ sem_value' = after.value
        /\ sem_woken' = after.woken
        /\ UNCHANGED sem_waiters

\* SubagentTask(id, description, allowed_paths); batch is the spawn call that made it
NewTask(batch) ==
    [status |-> "pending", result |-> None, error |-> None, completed_at |-> NoTime,
     batch |-> batch]

\* a spawn_and_wait call: the ids of the records it created, whether the
\* list comprehension raised before gather, whether it has returned, the
\* results it returned, and the output SubagentTool.execute made of them
NewSpawn(ids, raised) ==
    [ids |-> ids, raised |-> raised, returned |-> FALSE, results |-> <<>>, output |-> None]

\* SubagentManager(agent_loop, max_concurrent=G)
InitSubagent ==
    /\ CtxFresh /\ SandboxFresh /\ LoopFresh /\ OrchFresh /\ CallFresh /\ OtherFresh
    /\ max_concurrent \in 1..MaxGate
    /\ sem_value = max_concurrent
    /\ tasks = <<>>
    /\ sem_waiters = <<>>
    /\ sem_woken = {}
    /\ coro = <<>>
    /\ spawns = <<>>
    /\ now = 0

\* spawn_and_wait up to the await of gather: create_task for every subtask,
\* then one execute_task coroutine per record, scheduled in submission order
spawn_and_wait(n) ==
    /\ Len(tasks) + n <= MaxTasks
    /\ tasks' = tasks \o [i \in 1..n |-> NewTask(Len(spawns) + 1)]
    /\ coro' = coro \o [i \in 1..n |-> "ready"]
    /\ spawns' = Append(spawns, NewSpawn([i \in 1..n |-> Len(tasks) + i], FALSE))
    /\ UNCHANGED <<max_concurrent, now, sem_value, sem_waiters, sem_woken>>
    /\ UNCHANGED <<ctx_vars, path_vars, loop_vars, orch_vars, call_vars, other_vars>>

\* execute_task starts (the event loop runs ready coroutines first come first
\* served): Semaphore.acquire either takes a permit at once, and the record
\* becomes RUNNING, or queues the coroutine
StartTask(t) ==
    /\ t \in DOMAIN coro
    /\ coro[t] = "ready"
    /\ \A u \in 1..(t - 1) : coro[u] # "ready"
    /\ IF ~Locked(sem_value, sem_waiters)
       THEN /\ sem_value' = sem_value - 1
            /\ tasks' = [tasks EXCEPT ![t].status = "running"]
            /\ coro' = [coro EXCEPT ![t] = "running"]
            /\ UNCHANGED <<sem_waiters, sem_woken>>
       ELSE /\ sem_waiters' = Append(sem_waiters, t)
            /\ coro' = [coro EXCEPT ![t] = "waiting"]
            /\ UNCHANGED <<sem_value, sem_woken, tasks>>
    /\ UNCHANGED <<max_concurrent, now, spawns>>
    /\ UNCHANGED <<ctx_vars, path_vars, loop_vars, orch_vars, call_vars, other_vars>>

\* a woken waiter resumes inside Semaphore.acquire (the event loop resumes
\* woken coroutines first come first served): it leaves the queue, passes a
\* spare permit on, and the record becomes RUNNING
ResumeTask(t) ==
    /\ t \in sem_woken
    /\ \A i, j \in DOMAIN sem_waiters :
          (i < j /\ sem_waiters[j] = t) => sem_waiters[i] \notin sem_woken
    /\ LET left == SelectSeq(sem_waiters, LAMBDA u : u # t)
           after == IF sem_value > 0
                    THEN WakeUpNext(sem_value, left, sem_woken \ {t})
                    ELSE [value |-> sem_value, woken |-> sem_woken \ {t}]
       IN  /\ sem_waiters' = left
           /\ sem_value' = after.value
           /\ sem_woken' = after.woken
    /\ tasks' = [tasks EXCEPT ![t].status = "running"]
    /\ coro' = [coro EXCEPT ![t] = "running"]
    /\ UNCHANGED <<max_concurrent, now, spawns>>
    /\ UNCHANGED <<ctx_vars, path_vars, loop_vars, orch_vars, call_vars, other_vars>>

\* how the child loop's run() ends: an AgentResult with success, one
\* without, or an exception.  The name of the outcome stands for the text the
\* child hands back (the output, the error, or str(e))
ChildOutcomes == {"success", "failure", "raised"}

\* outcomes whose text is longer than the summary limit
LongOutcomes == {"long success", "long failure"}

Succeeded(outcome) == outcome \in {"success", "long success"}
Raised(outcome) == outcome = "raised"

SummaryLimit == 500

\* len(text), for the texts a child hands back
CharCount(text) ==
    CASE Head(text) \in LongOutcomes -> SummaryLimit + 1
      [] Head(text) = "raised" -> 6
      [] OTHER -> 7

\* an execute_task in which a failing child takes its running siblings down
FinishTaskAbortingSiblings(t, outcome) ==
    /\ t \in DOMAIN coro
    /\ coro[t] = "running"
    /\ tasks' = [u \in DOMAIN tasks |->
                   IF u = t
                   THEN [tasks[u] EXCEPT
                           !.status = IF Succeeded(outcome) THEN "completed" ELSE "failed",
                           !.result = IF Raised(outcome) THEN None ELSE <<outcome>>,
                           !.error = IF Succeeded(outcome) THEN None ELSE <<outcome>>,
                           !.completed_at = now]
                   ELSE IF ~Succeeded(outcome) /\ tasks[u].status = "running"
                   THEN [tasks[u] EXCEPT !.status = "failed", !.error = <<outcome>>]
                   ELSE tasks[u]]
    /\ Release
    /\ coro' = [coro EXCEPT ![t] = "done"]
    /\ UNCHANGED <<max_concurrent, now, spawns>>
    /\ UNCHANGED <<ctx_vars, path_vars, loop_vars, orch_vars, call_vars, other_vars>>

\* the rest of execute_task: the child's run() ends, the record takes its
\* final status and the permit is released
FinishTask(t, outcome) ==
    /\ t \in DOMAIN coro
    /\ coro[t] = "running"
    /\ tasks' = [tasks EXCEPT
                   ![t].status = IF Succeeded(outcome) THEN "completed" ELSE "failed",
                   ![t].result = IF Raised(outcome) THEN None ELSE <<outcome>>,
                   ![t].error = IF Succeeded(outcome) THEN None ELSE <<outcome>>,
                   ![t].completed_at = now]
    /\ Release
    /\ coro' = [coro EXCEPT ![t] = "done"]
    /\ UNCHANGED <<max_concurrent, now, spawns>>
    /\ UNCHANGED <<ctx_vars, path_vars, loop_vars, orch_vars, call_vars, other_vars>>

\* a summary is its prefix followed by the first kept characters of the text
\* and, when ellipsis, by "..."
Summary(prefix, text, kept, ellipsis) ==
    [prefix |-> prefix, text |-> text, kept |-> kept, ellipsis |-> ellipsis]

\* len(summary)
SummaryLength(summary) ==
    Len(summary.prefix) + summary.kept + (IF summary.ellipsis THEN 3 ELSE 0)

\* the characters of the literal prefixes of the f-strings
Chars(n) == [i \in 1..n |-> "c"]
CompletedPrefix == Chars(11)           \* "Completed: "
FailedPrefix == Chars(8)               \* "Failed: "
SubagentFailedPrefix == Chars(17)      \* "Subagent failed: "

\* SubagentManager._summarize_result
SummarizeResult(success, output, error) ==
    IF success
    THEN IF CharCount(output) > SummaryLimit
         THEN Summary(CompletedPrefix, output, SummaryLimit, TRUE)
         ELSE Summary(CompletedPrefix, output, CharCount(output), FALSE)
    ELSE Summary(FailedPrefix, error, CharCount(error), FALSE)

\* the SubagentResult execute_task returns for a finished record: the one of
\* the try block when run() returned, the one of the except block otherwise
SubagentResult(t) ==
    [task_id |-> t,
     success |-> tasks[t].status = "completed",
     summary |-> IF tasks[t].status # "completed" /\ tasks[t].result = None
                 THEN Summary(SubagentFailedPrefix, tasks[t].error,
                              CharCount(tasks[t].error), FALSE)
                 ELSE SummarizeResult(tasks[t].status = "completed",
                                      tasks[t].result, tasks[t].error)]

\* a gather that hands the results back last submitted first
GatherResultsReversed(ids) ==
    [i \in DOMAIN ids |-> SubagentResult(ids[Len(ids) + 1 - i])]

\* execute_parallel: gather hands back every coroutine's result, in the
\* order the coroutines were passed
GatherResults(ids) == [i \in DOMAIN ids |-> SubagentResult(ids[i])]

\* execute_parallel: gather has every coroutine's result, in submission order
SpawnReturns(b) ==
    /\ b \in DOMAIN spawns
    /\ ~spawns[b].returned
    /\ \A i \in DOMAIN spawns[b].ids : coro[spawns[b].ids[i]] = "done"
    /\ spawns' = [spawns EXCEPT
                    ![b].returned = TRUE,
                    ![b].results = GatherResults(spawns[b].ids)]
    /\ UNCHANGED <<max_concurrent, now, tasks, sem_value, sem_waiters, sem_woken, coro>>
    /\ UNCHANGED <<ctx_vars, path_vars, loop_vars, orch_vars, call_vars, other_vars>>

\* a cancel_task that also cancels a record that is already running
CancelTaskUnlessTerminal(records, task_id) ==
    IF task_id \in DOMAIN records /\ records[task_id].status \in {"pending", "running"}
    THEN [records |-> [records EXCEPT ![task_id].status = "cancelled"], returned |-> TRUE]
    ELSE [records |-> records, returned |-> FALSE]

\* cancel_task, the same code in SubagentManager and in TaskOrchestrator: the
\* task table after the call and the value the call returns
CancelTask(records, task_id) ==
    IF task_id \in DOMAIN records /\ records[task_id].status = "pending"
    THEN [records |-> [records EXCEPT ![task_id].status = "cancelled"], returned |-> TRUE]
    ELSE [records |-> records, returned |-> FALSE]

\* SubagentManager.cancel_task
cancel_task(t) ==
    /\ t \in DOMAIN tasks
    /\ tasks' = CancelTask(tasks, t).records
    /\ UNCHANGED <<max_concurrent, now, sem_value, sem_waiters, sem_woken, coro, spawns>>
    /\ UNCHANGED <<ctx_vars, path_vars, loop_vars, orch_vars, call_vars, other_vars>>

NextSubagent ==
    \/ \E n \in 1..MaxBatch : spawn_and_wait(n)
    \/ \E t \in TaskIds : StartTask(t)
    \/ \E t \in TaskIds : ResumeTask(t)
    \/ \E t \in TaskIds, outcome \in ChildOutcomes : FinishTask(t, outcome)
    \/ \E b \in TaskIds : SpawnReturns(b)
    \/ \E t \in TaskIds : cancel_task(t)

SpecSubagent == InitSubagent /\ [][NextSubagent]_vars

\* the event loop runs every coroutine that can run, and every child loop's
\* run() comes to an end
FairSpecSubagent ==
    /\ SpecSubagent
    /\ \A t \in TaskIds : WF_vars(StartTask(t))
    /\ \A t \in TaskIds : WF_vars(ResumeTask(t))
    /\ \A t \in TaskIds : WF_vars(\E outcome \in ChildOutcomes : FinishTask(t, outcome))
    /\ \A b \in TaskIds : WF_vars(SpawnReturns(b))

(***************************************************************************)
(* SubagentTool: spawn_subagent in the tool set of a parent loop           *)
(***************************************************************************)
SpawnTool == "spawn_subagent"

\* kwargs.get("subtasks", [])
SubtasksOf(params) == DictGet(params.items, "subtasks", <<>>)

\* st["description"] raises KeyError on an entry that has no description
HasDescription(entry) == "description" \in DOMAIN entry

\* the number of records the list comprehension of spawn_and_wait creates:
\* one per entry, up to the first entry on which st["description"] raises
CreatedCount(subtasks) ==
    LET bad == { i \in DOMAIN subtasks : ~HasDescription(subtasks[i]) }
    IN  IF bad = {} THEN Len(subtasks)
        ELSE (CHOOSE i \in bad : \A k \in bad : i <= k) - 1

\* SubagentTool.execute goes on to spawn_and_wait: the list is not empty and
\* has at most 10 entries
Accepts(subtasks) == Len(subtasks) > 0 /\ Len(subtasks) <= SubtaskCap

\* the error of the ToolResult that turns the list down
RejectionError(subtasks) ==
    IF Len(subtasks) = 0 THEN <<"No subtasks provided">>
    ELSE <<"Maximum 10 subtasks allowed">>

\* sum(1 for r in results if r.success)
SuccessCount(results) == Cardinality({ i \in DOMAIN results : results[i].success })

\* the output dict of SubagentTool.execute: total, successful, failed, results
Aggregate(results) ==
    <<"aggregate", Len(results), SuccessCount(results), Len(results) - SuccessCount(results),
      [i \in DOMAIN results |->
          [task_id |-> results[i].task_id, success |-> results[i].success,
           summary |-> results[i].summary]]>>

\* the ToolResult of SubagentTool.execute once spawn_and_wait has returned
SpawnOutput(results) == ToolResult(SuccessCount(results) > 0, Aggregate(results), None)

\* run(): the Observation of the spawn_subagent call and on to the next
\* iteration
ObserveSpawn(done) ==
    /\ AppendObservation(
          [tool_name |-> SpawnTool,
           input_params |-> decision.tool_params,
           output |-> IF done.success THEN done.output ELSE None,
           success |-> done.success,
           error |-> done.error])
    /\ pc' = "loop"
    /\ UNCHANGED <<max_history_length, allowed_paths>>

\* AgentLoop(llm, tools + [SubagentTool(manager, paths)], max_iterations=N)
\* and SubagentManager(agent_loop, max_concurrent=G), for the largest N and
\* G of the model
InitSpawn ==
    /\ CtxFresh /\ SandboxFresh /\ OrchFresh /\ CallFresh /\ OtherFresh
    /\ state = "idle"
    /\ pc = "idle"
    /\ max_iterations = MaxSpawnCalls
    /\ iterations = 0
    /\ decision = NoDecision
    /\ result = NoResult
    /\ llm_calls = <<>>
    /\ llm_messages = <<>>
    /\ invocations = <<>>
    /\ ObserversFresh
    /\ max_concurrent = MaxGate
    /\ sem_value = max_concurrent
    /\ tasks = <<>>
    /\ sem_waiters = <<>>
    /\ sem_woken = {}
    /\ coro = <<>>
    /\ spawns = <<>>
    /\ now = 0

\* _execute_tool on a spawn_subagent decision, up to the point where
\* SubagentTool.execute returns, raises or awaits the children: the list is
\* turned down, or spawn_and_wait creates the records one by one and, unless
\* an entry made it raise, starts one execute_task coroutine per record
SpawnDispatch ==
    /\ pc = "execute"
    /\ decision.tool_name = SpawnTool
    /\ decision.tool_params.isdict
    /\ Silent
    /\ LET subtasks == SubtasksOf(decision.tool_params)
           made == CreatedCount(subtasks)
           ids == [i \in 1..made |-> Len(tasks) + i]
       IN  /\ invocations' =
                 Append(invocations,
                        [tool |-> SpawnTool, params |-> decision.tool_params,
                         path_checked |-> FALSE, iteration |-> iterations,
                         outcome |-> IF ~Accepts(subtasks) THEN "failed"
                                     ELSE IF made < Len(subtasks) THEN "raised"
                                     ELSE "awaited"])
           /\ IF ~Accepts(subtasks)
              THEN /\ ObserveSpawn(ToolResult(FALSE, None, RejectionError(subtasks)))
                   /\ UNCHANGED <<tasks, coro, spawns>>
              ELSE /\ Len(tasks) + made <= MaxTasks
                   /\ tasks' = tasks \o [i \in 1..made |-> NewTask(Len(spawns) + 1)]
                   /\ IF made < Len(subtasks)
                      THEN \* KeyError leaves spawn_and_wait before gather and is
                           \* caught by the except clause of _execute_tool
                           /\ coro' = coro \o [i \in 1..made |-> "none"]
                           /\ spawns' = Append(spawns, NewSpawn(ids, TRUE))
                           /\ ObserveSpawn(ToolResult(FALSE, None, <<"KeyError:", "description">>))
                      ELSE /\ coro' = coro \o [i \in 1..made |-> "ready"]
                           /\ spawns' = Append(spawns, NewSpawn(ids, FALSE))
                           /\ pc' = "spawning"
                           /\ UNCHANGED ctx_vars
    /\ UNCHANGED <<state, max_iterations, iterations, decision, result, llm_calls,
                   llm_messages>>
    /\ UNCHANGED <<max_concurrent, now, sem_value, sem_waiters, sem_woken>>
    /\ UNCHANGED <<path_vars, orch_vars, call_vars, other_vars>>

\* gather has every child's result: spawn_and_wait returns them,
\* SubagentTool.execute folds them into its ToolResult and run() records the
\* Observation
SpawnCollect ==
    /\ pc = "spawning"
    /\ LET b == Len(spawns)
           ids == spawns[b].ids
           results == GatherResults(ids)
           done == SpawnOutput(results)
       IN  /\ \A i \in DOMAIN ids : coro[ids[i]] = "done"
           /\ spawns' = [spawns EXCEPT ![b].returned = TRUE,
                                       ![b].results = results,
                                       ![b].output = done.output]
           /\ ObserveSpawn(done)
    /\ Silent
    /\ UNCHANGED <<state, max_iterations, iterations, decision, result, llm_calls,
                   llm_messages, invocations>>
    /\ UNCHANGED <<max_concurrent, now, tasks, sem_value, sem_waiters, sem_woken, coro>>
    /\ UNCHANGED <<path_vars, orch_vars, call_vars, other_vars>>

\* how the children of a spawn_subagent call end: with a short or a long
\* answer, with a failed AgentResult whose error is long, or with an exception
SpawnOutcomes == {"success", "long success", "long failure", "raised"}

\* time passes
Tick ==
    /\ now < MaxClock
    /\ now' = now + 1
    /\ UNCHANGED <<max_concurrent, tasks, sem_value, sem_waiters, sem_woken, coro, spawns>>
    /\ UNCHANGED <<ctx_vars, path_vars, loop_vars, orch_vars, call_vars, other_vars>>

NextSpawn ==
    \/ Run(<<"task">>, <<>>)
    \/ BeginIteration
    \/ BudgetExceeded
    \/ \E raw \in SpawnReplies : Generate(raw)
    \/ SpawnDispatch
    \/ \E t \in TaskIds : StartTask(t)
    \/ \E t \in TaskIds : ResumeTask(t)
    \/ \E t \in TaskIds, outcome \in SpawnOutcomes : FinishTask(t, outcome)
    \/ SpawnCollect
    \/ Tick

SpecSpawn == InitSpawn /\ [][NextSpawn]_vars

(***************************************************************************)
(* TaskOrchestrator: the task table, the queue and the single worker       *)
(***************************************************************************)
MaxOrchTasks == 2    \* Task records created in all
MaxQueue == 2        \* ids waiting in task_queue

OrchIds == 1..MaxOrchTasks

\* Task(id, description, allowed_paths); completed_at tells whether the
\* timestamp is set
NewOrchTask == [status |-> "pending", result |-> None, error |-> None, completed_at |-> FALSE]

\* TaskOrchestrator(), the task table empty and no worker
InitOrchestrator ==
    /\ CtxFresh /\ SandboxFresh /\ LoopFresh /\ SubFresh /\ CallFresh /\ OtherFresh
    /\ orch_tasks = <<>>
    /\ task_queue = <<>>
    /\ running = FALSE
    /\ worker_task = NoWorker
    /\ agent_loop = FALSE

\* TaskOrchestrator.set_agent_loop
set_agent_loop ==
    /\ ~agent_loop
    /\ agent_loop' = TRUE
    /\ UNCHANGED <<orch_tasks, task_queue, running, worker_task>>
    /\ UNCHANGED <<ctx_vars, path_vars, loop_vars, sub_vars, call_vars, other_vars>>

\* TaskOrchestrator.create_task
create_task ==
    /\ Len(orch_tasks) < MaxOrchTasks
    /\ orch_tasks' = Append(orch_tasks, NewOrchTask)
    /\ UNCHANGED <<task_queue, running, worker_task, agent_loop>>
    /\ UNCHANGED <<ctx_vars, path_vars, loop_vars, sub_vars, call_vars, other_vars>>

\* TaskOrchestrator.submit_task: the queue is unbounded, put never waits
submit_task(t) ==
    /\ t \in DOMAIN orch_tasks
    /\ Len(task_queue) < MaxQueue
    /\ task_queue' = Append(task_queue, t)
    /\ UNCHANGED <<orch_tasks, running, worker_task, agent_loop>>
    /\ UNCHANGED <<ctx_vars, path_vars, loop_vars, sub_vars, call_vars, other_vars>>

\* TaskOrchestrator.start: a second start while running changes nothing
start ==
    /\ ~running
    /\ running' = TRUE
    /\ worker_task' = [at |-> "get", task |-> 0]
    /\ UNCHANGED <<orch_tasks, task_queue, agent_loop>>
    /\ UNCHANGED <<ctx_vars, path_vars, loop_vars, sub_vars, call_vars, other_vars>>

\* what Task.cancel() does to the worker: CancelledError is raised at the
\* await the worker is suspended in.  Inside wait_for it reaches the except
\* clause of _worker at once.  Inside agent_loop.run it is not an Exception,
\* so neither the except clause of run nor the one of _execute_task catches
\* it: only the finally clause of _execute_task runs, and then _worker breaks
CancelWorker(w, records) ==
    CASE w.at = "get" -> [worker |-> [at |-> "done", task |-> 0], records |-> records]
      [] w.at = "run" -> [worker |-> [at |-> "done", task |-> 0],
                          records |-> [records EXCEPT ![w.task].completed_at = TRUE]]
      [] OTHER -> [worker |-> w, records |-> records]

\* TaskOrchestrator.stop: clears the flag, cancels the worker and awaits it
stop ==
    /\ running \/ worker_task.at \in {"get", "run"}
    /\ running' = FALSE
    /\ LET cancelled == CancelWorker(worker_task, orch_tasks)
       IN  /\ worker_task' = cancelled.worker
           /\ orch_tasks' = cancelled.records
    /\ UNCHANGED <<task_queue, agent_loop>>
    /\ UNCHANGED <<ctx_vars, path_vars, loop_vars, sub_vars, call_vars, other_vars>>

\* _worker: queue.get hands over the oldest id (an empty queue only makes
\* wait_for time out and the worker wait again), and _execute_task runs up to
\* the await of agent_loop.run, or to its end when no agent loop is set
WorkerTakes ==
    /\ worker_task.at = "get"
    /\ task_queue # <<>>
    /\ LET t == Head(task_queue)
       IN  IF agent_loop
           THEN /\ orch_tasks' = [orch_tasks EXCEPT ![t].status = "running"]
                /\ worker_task' = [at |-> "run", task |-> t]
           ELSE /\ orch_tasks' = [orch_tasks EXCEPT
                                    ![t].status = "failed",
                                    ![t].error = <<"No agent loop configured">>,
                                    ![t].completed_at = TRUE]
                /\ UNCHANGED worker_task
    /\ task_queue' = Tail(task_queue)
    /\ UNCHANGED <<running, agent_loop>>
    /\ UNCHANGED <<ctx_vars, path_vars, loop_vars, sub_vars, call_vars, other_vars>>

\* the rest of _execute_task: agent_loop.run ends with an AgentResult or
\* raises an Exception, and the worker goes back to the queue
WorkerFinishes(outcome) ==
    /\ worker_task.at = "run"
    /\ LET t == worker_task.task
       IN  orch_tasks' = [orch_tasks EXCEPT
                            ![t].status = IF outcome = "success" THEN "completed" ELSE "failed",
                            ![t].result = IF outcome = "raised" THEN orch_tasks[t].result
                                          ELSE <<outcome>>,
                            ![t].error = IF outcome = "success" THEN orch_tasks[t].error
                                         ELSE <<outcome>>,
                            ![t].completed_at = TRUE]
    /\ worker_task' = [at |-> "get", task |-> 0]
    /\ UNCHANGED <<task_queue, running, agent_loop>>
    /\ UNCHANGED <<ctx_vars, path_vars, loop_vars, sub_vars, call_vars, other_vars>>

\* TaskOrchestrator.cancel_task
orch_cancel_task(t) ==
    /\ t \in DOMAIN orch_tasks
    /\ orch_tasks' = CancelTask(orch_tasks, t).records
    /\ UNCHANGED <<task_queue, running, worker_task, agent_loop>>
    /\ UNCHANGED <<ctx_vars, path_vars, loop_vars, sub_vars, call_vars, other_vars>>

NextOrchestrator ==
    \/ set_agent_loop
    \/ create_task
    \/ \E t \in OrchIds : submit_task(t)
    \/ start
    \/ stop
    \/ WorkerTakes
    \/ \E outcome \in ChildOutcomes : WorkerFinishes(outcome)
    \/ \E t \in OrchIds : orch_cancel_task(t)

SpecOrchestrator == InitOrchestrator /\ [][NextOrchestrator]_vars

(***************************************************************************)
(* SpecCancel: cancel_task called on a task table in any state             *)
(***************************************************************************)
Statuses == {"pending", "running", "completed", "failed", "cancelled"}

\* the result and error fields a record has in each status
ResultIn(status) ==
    CASE status = "completed" -> <<"success">>
      [] status = "failed" -> <<"failure">>
      [] OTHER -> None
ErrorIn(status) == IF status = "failed" THEN <<"failure">> ELSE None

\* where the execute_task coroutine of a record in that status stands
CoroIn(status) ==
    CASE status \in {"pending", "cancelled"} -> "ready"
      [] status = "running" -> "running"
      [] OTHER -> "done"

\* the status columns of the task tables of up to n records
StatusLists(n) == UNION { [1..k -> Statuses] : k \in 0..n }

\* a SubagentManager with gate size G = DefaultMaxConcurrent whose records,
\* made by create_task, are in any status execute_task and cancel_task
\* bring them to, or a TaskOrchestrator in the same way
InitCancel ==
    /\ CtxFresh /\ SandboxFresh /\ LoopFresh /\ CallFresh /\ OtherFresh
    /\ \/ /\ OrchFresh
          /\ \E col \in StatusLists(MaxTasks) :
                /\ tasks = [t \in DOMAIN col |->
                              [status |-> col[t], result |-> ResultIn(col[t]),
                               error |-> ErrorIn(col[t]),
                               completed_at |-> IF col[t] \in {"completed", "failed"}
                                                THEN 0 ELSE NoTime,
                               batch |-> 0]]
                /\ coro = [t \in DOMAIN col |-> CoroIn(col[t])]
                /\ sem_value = DefaultMaxConcurrent
                                  - Cardinality({t \in DOMAIN col : col[t] = "running"})
          /\ max_concurrent = DefaultMaxConcurrent
          /\ sem_waiters = <<>>
          /\ sem_woken = {}
          /\ spawns = <<>>
          /\ now = 0
       \/ /\ SubFresh
          /\ \E col \in StatusLists(MaxOrchTasks) :
                /\ orch_tasks = [t \in DOMAIN col |->
                                   [status |-> col[t], result |-> ResultIn(col[t]),
                                    error |-> ErrorIn(col[t]),
                                    completed_at |-> col[t] \in {"completed", "failed"}]]
                /\ LET busy == {t \in DOMAIN col : col[t] = "running"}
                   IN  /\ Cardinality(busy) <= 1
                       /\ running = (busy # {})
                       /\ worker_task = IF busy = {} THEN NoWorker
                                        ELSE [at |-> "run", task |-> CHOOSE t \in busy : TRUE]
          /\ task_queue = <<>>
          /\ agent_loop = TRUE

\* SubagentManager.cancel_task(task_id), with the value it returns
manager_cancel_task(task_id) ==
    /\ tasks' = CancelTask(tasks, task_id).records
    /\ last_cancel' = [callee |-> "manager", task_id |-> task_id,
                       returned |-> CancelTask(tasks, task_id).returned]
    /\ UNCHANGED <<max_concurrent, now, sem_value, sem_waiters, sem_woken, coro, spawns>>
    /\ UNCHANGED <<ctx_vars, path_vars, loop_vars, orch_vars, other_vars>>

\* TaskOrchestrator.cancel_task(task_id), with the value it returns
orchestrator_cancel_task(task_id) ==
    /\ orch_tasks' = CancelTask(orch_tasks, task_id).records
    /\ last_cancel' = [callee |-> "orchestrator", task_id |-> task_id,
                       returned |-> CancelTask(orch_tasks, task_id).returned]
    /\ UNCHANGED <<task_queue, running, worker_task, agent_loop>>
    /\ UNCHANGED <<ctx_vars, path_vars, loop_vars, sub_vars, other_vars>>

\* the ids cancel_task is called with: those of the records and one more,
\* which no table knows
CancelIds == 1..(MaxTasks + 1)

NextCancel ==
    \/ \E task_id \in CancelIds : manager_cancel_task(task_id)
    \/ \E task_id \in CancelIds : orchestrator_cancel_task(task_id)

SpecCancel == InitCancel /\ [][NextCancel]_vars

(***************************************************************************)
(* Properties of the history ledger                                        *)
(***************************************************************************)
\* C7: for every ceiling C >= 1 and every sequence of add_message /
\* add_observation calls with messages of any role, system included, the
\* number of stored messages is at most C after each call.
C7_MessageCountWithinCeiling == Len(messages) <= max_history_length

\* C8: every system-role message that was ever appended is still present in
\* the stored messages, whatever eviction has dropped.
C8_SystemMessagesSurvive ==
    \A i \in DOMAIN appended :
        IsSystem(appended[i]) => \E j \in DOMAIN messages : messages[j] = appended[i]

\* an eviction has dropped a non-system message while a system message,
\* appended before it, is still stored
C8_Witness ==
    \E i, k \in DOMAIN appended :
        /\ i < k
        /\ IsSystem(appended[i])
        /\ ~IsSystem(appended[k])
        /\ appended[k] \notin SeqToSet(messages)
        /\ appended[i] \in SeqToSet(messages)

(***************************************************************************)
(* Properties of the path predicates                                       *)
(***************************************************************************)
\* root is the path itself or one of its ancestors
IsRootOrAncestorOf(root, path) ==
    /\ Len(root) <= Len(path)
    /\ \A i \in 1..Len(root) : root[i] = path[i]

\* C9: SandboxManager.is_path_allowed(P) returns true if and only if P
\* resolves to some root in R or to a descendant of some root in R, and
\* false for every P when R is empty.
C9_SandboxAllowsExactlyRootsAndDescendants ==
    path_query.callee = "sandbox" =>
        (path_query.result <=>
            \E i \in DOMAIN sandbox_allowed_paths :
                IsRootOrAncestorOf(sandbox_allowed_paths[i], Resolve(path_query.path)))

\* C10: Context.is_path_allowed(P) returns true if and only if P resolves to
\* one of the context's allowed paths or to a descendant of one, and false
\* for every path when the allowed-path list is empty.
C10_ContextAllowsExactlyRootsAndDescendants ==
    path_query.callee = "context" =>
        (path_query.result <=>
            \E i \in DOMAIN allowed_paths :
                IsRootOrAncestorOf(allowed_paths[i], Resolve(path_query.path)))

\* a path written through the link or through ".." was answered true because
\* it resolves to an allowed root itself
C10_Witness ==
    /\ path_query.callee = "context"
    /\ path_query.result
    /\ Resolve(path_query.path) # path_query.path
    /\ Resolve(path_query.path) \in SeqToSet(allowed_paths)
    /\ allowed_paths # <<>>

(***************************************************************************)
(* Properties of the loop and its dispatcher                               *)
(***************************************************************************)
\* C1: every tool.execute of a registered tool whose requires_path_check
\* flag is true happens only after the path check was evaluated on a
\* path-bearing parameter of that call and answered allowed, whatever
\* parameters the decision supplies.
C1_PathCheckedToolsRunOnlyAfterCheck ==
    \A i \in DOMAIN invocations :
        Tools[invocations[i].tool].requires_path_check => invocations[i].path_checked

\* C4: run returns success=true with iterations=k if and only if the decision
\* obtained on iteration k is complete; a complete decision ends the run with
\* success on that very iteration, whatever failures were recorded before.
C4_SuccessIffCompleteDecision ==
    /\ result.kind = "result" =>
          (result.success <=>
              /\ decision.kind = "decision"
              /\ decision.iteration = result.iterations
              /\ decision.is_complete)
    /\ (decision.kind = "decision" /\ decision.is_complete) =>
          /\ pc = "returned"
          /\ result.kind = "result"
          /\ result.success
          /\ result.iterations = decision.iteration
          /\ Len(llm_calls) = decision.iteration

\* a run that succeeded on its third iteration with a failed observation on
\* record
C4_Witness ==
    /\ result.kind = "result"
    /\ result.success
    /\ result.iterations = 3
    /\ \E i \in DOMAIN result.observations : ~result.observations[i].success

\* the reply parses to a decision that is not complete and names no tool
IsIdleReply(raw) ==
    /\ raw \in Replies
    /\ LET got == GetDecision(raw, 0)
       IN  /\ ~got.fault
           /\ ~got.decision.is_complete
           /\ got.decision.tool_name = NoTool

AllRepliesIdle == \A i \in DOMAIN llm_calls : IsIdleReply(llm_calls[i])

\* C5: with budget N, a run whose model always returns an incomplete
\* decision naming no tool calls the backend exactly N times and then returns
\* success=false, iterations=N and the 'max iterations reached' error.
C5_BudgetExhaustedAfterExactlyNCalls ==
    AllRepliesIdle =>
        /\ Len(llm_calls) <= max_iterations
        /\ pc = "returned" =>
              /\ Len(llm_calls) = max_iterations
              /\ result = AgentResult(FALSE, EmptyString, <<>>,
                                      MaxIterationsError(max_iterations), max_iterations)

\* a run of budget 3 has returned after three idle replies
C5_Witness ==
    /\ pc = "returned"
    /\ AllRepliesIdle
    /\ max_iterations = 3
    /\ Len(llm_calls) = 3
    /\ ~result.success

\* C6: whenever the raw reply cannot be parsed as a structured decision, the
\* loop takes the whole raw reply as the final answer and returns on that
\* iteration with success=true and output equal to the raw reply.
C6_UnparseableReplyIsFinalAnswer ==
    \A i \in DOMAIN llm_calls :
        (llm_calls[i] \in Replies /\ JsonLoads(llm_calls[i]).type # "object") =>
            /\ i = Len(llm_calls)
            /\ result.kind = "result"
            /\ result.success
            /\ result.output = llm_calls[i]
            /\ result.iterations = i

(***************************************************************************)
(* Properties of the admission gate                                        *)
(***************************************************************************)
RunningTasks == { t \in DOMAIN tasks : tasks[t].status = "running" }

\* C2: with max_concurrent = G and M > G subtasks submitted, in one spawn
\* call or in several overlapping ones, at most G SubagentTask records have
\* status running in every reachable state.
C2_RunningWithinGate == Cardinality(RunningTasks) <= max_concurrent

\* two overlapping spawn calls have submitted more subtasks than the gate
\* admits; the gate is full and a coroutine is queued behind it
C2_Witness ==
    /\ Len(tasks) > max_concurrent
    /\ Cardinality(RunningTasks) = max_concurrent
    /\ sem_waiters # <<>>
    /\ Len(spawns) >= 2
    /\ \A b \in DOMAIN spawns : ~spawns[b].returned

StatusOf(t) == IF t \in DOMAIN tasks THEN tasks[t].status ELSE "absent"
HasReturned(b) == b \in DOMAIN spawns /\ spawns[b].returned

\* C3: under fair scheduling, when every child loop's run terminates, each
\* of the M > G subtasks submitted eventually reaches a terminal status and
\* the spawn call that submitted them eventually returns.
C3_AllSubtasksFinishAndSpawnReturns ==
    /\ \A t \in TaskIds : [](t \in DOMAIN tasks => <>(StatusOf(t) \in Terminal))
    /\ \A b \in TaskIds : [](b \in DOMAIN spawns => <>HasReturned(b))

\* a spawn call with more subtasks than the gate admits has returned with
\* every one of its records in a terminal status
C3_Witness ==
    \E b \in DOMAIN spawns :
        /\ spawns[b].returned
        /\ Len(spawns[b].ids) > max_concurrent
        /\ \A i \in DOMAIN spawns[b].ids : tasks[spawns[b].ids[i]].status \in Terminal

(***************************************************************************)
(* Properties of the SubagentTask records                                  *)
(***************************************************************************)
\* the status changes the record lifecycle allows
StatusEdges ==
    { <<"pending", "running">>, <<"running", "completed">>, <<"running", "failed">>,
      <<"pending", "cancelled">> }

\* C11: under any interleaving of spawn execution and cancel_task calls, the
\* status of every SubagentTask changes only along pending->running,
\* running->completed, running->failed and pending->cancelled, and once a
\* record is completed, failed or cancelled its status, result and error
\* never change again.
C11_StatusMovesForwardOnly ==
    [][\A t \in DOMAIN tasks :
          /\ tasks'[t].status # tasks[t].status =>
                <<tasks[t].status, tasks'[t].status>> \in StatusEdges
          /\ tasks[t].status \in Terminal =>
                /\ tasks'[t].status = tasks[t].status
                /\ tasks'[t].result = tasks[t].result
                /\ tasks'[t].error = tasks[t].error]_vars

(***************************************************************************)
(* Properties of the TaskOrchestrator                                      *)
(***************************************************************************)
\* C12: TaskOrchestrator.stop() does not preempt work already running: a task
\* that has entered status running is never left in running, whether or not
\* stop() is called while it runs; as long as its status is running the
\* worker is executing it, on its way to completed or failed.
C12_RunningTaskIsNeverAbandoned ==
    \A t \in DOMAIN orch_tasks :
        orch_tasks[t].status = "running" =>
            /\ worker_task.at = "run"
            /\ worker_task.task = t

(***************************************************************************)
(* Properties of cancel_task                                               *)
(***************************************************************************)
\* the task table the last cancel_task call was made on
TableOf(callee) == IF callee = "manager" THEN tasks ELSE orch_tasks

\* C13: cancel_task(id) returns true and sets the status to cancelled if and
\* only if the record exists and its status is pending; for a running,
\* completed, failed or already cancelled record, and for an unknown id, it
\* returns false and leaves every record unchanged.
C13_CancelSucceedsIffPending ==
    [][LET call == last_cancel'
           before == IF call.callee = "manager" THEN tasks ELSE orch_tasks
           after == IF call.callee = "manager" THEN tasks' ELSE orch_tasks'
           pending == /\ call.task_id \in DOMAIN before
                      /\ before[call.task_id].status = "pending"
       IN  /\ call.returned <=> pending
           /\ call.returned =>
                 /\ after[call.task_id].status = "cancelled"
                 /\ after = [before EXCEPT ![call.task_id].status = "cancelled"]
           /\ ~call.returned => after = before
           /\ call.callee = "manager" => orch_tasks' = orch_tasks
           /\ call.callee = "orchestrator" => tasks' = tasks]_vars

\* the last call returned true: its record, pending before, is cancelled now,
\* next to a running record that no call has changed
C13_Witness ==
    /\ last_cancel.callee # "none"
    /\ last_cancel.returned
    /\ LET table == TableOf(last_cancel.callee)
       IN  /\ table[last_cancel.task_id].status = "cancelled"
           /\ \E t \in DOMAIN table : table[t].status = "running"

(***************************************************************************)
(* Properties of the dispatcher's failure results                          *)
(***************************************************************************)
\* the Observation the step has just recorded
LastObservation == observations[Len(observations)]

\* the step records exactly one more Observation, a failed one, invokes no
\* tool and goes on to the next iteration without ending the run
RecordsFailureAndContinues ==
    /\ invocations' = invocations
    /\ Len(observations') = Len(observations) + 1
    /\ ~LastObservation'.success
    /\ LastObservation'.tool_name = decision.tool_name
    /\ pc' = "loop"
    /\ result' = result
    /\ iterations' = iterations

\* the decision names a registered path-checked tool and the path (or, when
\* path is missing or empty, the file_path) of its parameters resolves
\* outside every allowed root
NamesPathOutside ==
    /\ decision.kind = "decision"
    /\ decision.tool_name \in DOMAIN Tools
    /\ Tools[decision.tool_name].requires_path_check
    /\ decision.tool_params.isdict
    /\ LET items == decision.tool_params.items
           path == IF "path" \in DOMAIN items /\ items["path"] \notin {None, EmptyString}
                   THEN items["path"]
                   ELSE IF "file_path" \in DOMAIN items THEN items["file_path"] ELSE None
       IN  /\ path \notin {None, EmptyString}
           /\ \A i \in DOMAIN allowed_paths :
                 ~IsRootOrAncestorOf(allowed_paths[i], Resolve(path))

\* C19: when a decision invokes a path-checked tool with a path (or
\* file_path) parameter that resolves outside every allowed root, the tool
\* body is not invoked, an Observation with success=false and a sandbox
\* error is recorded, and the loop continues to the next iteration instead
\* of aborting.
C19_PathOutsideIsRecordedAndLoopContinues ==
    [][(pc = "execute" /\ NamesPathOutside) =>
          /\ RecordsFailureAndContinues
          /\ Head(LastObservation'.error) = "Path not allowed:"]_vars

\* the second iteration has begun after the first one recorded the sandbox
\* error for a path that leaves the allowed root through ".."
C19_Witness ==
    /\ iterations = 2
    /\ Len(observations) = 1
    /\ ~observations[1].success
    /\ Head(observations[1].error) = "Path not allowed:"
    /\ observations[1].input_params = Dict([path |-> EscapingPath])
    /\ allowed_paths # <<>>
    /\ invocations = <<>>

\* C20: dispatching a tool name that is not registered never raises and
\* never invokes any tool: it yields a failure result whose error contains
\* the tool name, which is recorded as an Observation with success=false,
\* and the loop continues.
C20_UnknownToolIsRecordedAndLoopContinues ==
    [][(pc = "execute" /\ decision.tool_name \notin DOMAIN Tools) =>
          /\ RecordsFailureAndContinues
          /\ decision.tool_name \in SeqToSet(LastObservation'.error)
          /\ LastObservation'.output = None]_vars

\* the second iteration has begun after the first one recorded the failure
\* for the unregistered tool name
C20_Witness ==
    /\ iterations = 2
    /\ Len(observations) = 1
    /\ observations[1].tool_name \notin DOMAIN Tools
    /\ ~observations[1].success
    /\ observations[1].tool_name \in SeqToSet(observations[1].error)
    /\ invocations = <<>>

(***************************************************************************)
(* Properties of spawn_subagent                                            *)
(***************************************************************************)
\* run() is about to dispatch a spawn_subagent decision
DispatchingSpawn ==
    /\ pc = "execute"
    /\ decision.kind = "decision"
    /\ decision.tool_name = SpawnTool

\* the spawn_and_wait call the parent loop is waiting for, or made last
CurrentSpawn == spawns[Len(spawns)]

\* the fields of the structure SubagentTool.execute returns
IsAggregate(out) == Len(out) = 5 /\ Head(out) = "aggregate"
TotalOf(out) == out[2]
SuccessfulOf(out) == out[3]
FailedOf(out) == out[4]
ResultsOf(out) == out[5]

\* the child's run() returned an AgentResult with success=true
ChildSucceeded(t) == tasks[t].result \in { <<"success">>, <<"long success">> }

\* C14: a spawn_subagent call with more than 10 subtasks, or with an empty
\* list, returns a failure result with a descriptive error, creates no
\* SubagentTask record (the task table is unchanged) and starts no child
\* loop; a call with 1 to 10 subtasks is accepted and creates exactly one
\* record per entry.
C14_SpawnSizeLimits ==
    [][(DispatchingSpawn /\ pc' # "execute") =>
          LET n == Len(SubtasksOf(decision.tool_params))
          IN  IF n = 0 \/ n > 10
              THEN /\ tasks' = tasks
                   /\ coro' = coro
                   /\ Len(observations') = Len(observations) + 1
                   /\ ~LastObservation'.success
                   /\ LastObservation'.error # None
              ELSE Len(tasks') = Len(tasks) + n]_vars

\* C15: if one child loop of a spawn call faults or fails, only that child's
\* SubagentTask becomes failed (with its error text): every sibling still
\* runs to its own terminal status, the spawn call returns a result entry
\* for every submitted subtask, and the fault does not abort the parent loop.
C15_ChildFailureStaysWithChild ==
    [][/\ \A t \in DOMAIN tasks :
             (tasks[t].status # "failed" /\ tasks'[t].status = "failed") =>
                 /\ tasks'[t].error # None
                 /\ \A u \in DOMAIN tasks \ {t} :
                       tasks'[u] = tasks[u] /\ coro'[u] = coro[u]
                 /\ pc' = pc
                 /\ result' = result
       /\ (pc = "spawning" /\ pc' # "spawning") =>
             LET ids == CurrentSpawn.ids
             IN  /\ pc' = "loop"
                 /\ result' = result
                 /\ CurrentSpawn'.returned
                 /\ Len(CurrentSpawn'.results) = Len(ids)
                 /\ \A i \in DOMAIN ids :
                       /\ tasks[ids[i]].status \in {"completed", "failed"}
                       /\ tasks[ids[i]].status = "completed" <=> ChildSucceeded(ids[i])
                       /\ CurrentSpawn'.results[i].task_id = ids[i]]_vars

\* a spawn call has returned to the parent loop, which goes on, with the
\* second child faulted and the first and third completed
C15_Witness ==
    /\ pc = "loop"
    /\ spawns # <<>>
    /\ CurrentSpawn.returned
    /\ Len(CurrentSpawn.ids) = 3
    /\ tasks[CurrentSpawn.ids[1]].status = "completed"
    /\ tasks[CurrentSpawn.ids[2]].status = "failed"
    /\ tasks[CurrentSpawn.ids[2]].result = None
    /\ tasks[CurrentSpawn.ids[2]].error = <<"raised">>
    /\ tasks[CurrentSpawn.ids[3]].status = "completed"

\* C16: for every accepted spawn call, the Observation appended to the
\* parent loop's history carries the aggregate (total count, success count,
\* failure count and one summary per child), whatever mix of child successes
\* and failures occurred.
C16_ObservationCarriesAggregate ==
    [][(pc = "spawning" /\ pc' = "loop") =>
          LET n == Len(CurrentSpawn.ids)
              out == LastObservation'.output
          IN  /\ Len(observations') = Len(observations) + 1
              /\ LastObservation'.tool_name = SpawnTool
              /\ IsAggregate(out)
              /\ TotalOf(out) = n
              /\ SuccessfulOf(out) + FailedOf(out) = n
              /\ Len(ResultsOf(out)) = n]_vars

\* C17: for every accepted spawn call with n subtasks, the returned structure
\* has total = n, successful = the number of children whose AgentResult has
\* success=true, failed = n - successful, and results[i] is the entry of the
\* i-th submitted subtask regardless of the order in which children complete.
C17_AggregateCountsInSubmissionOrder ==
    \A b \in DOMAIN spawns :
        spawns[b].returned =>
            LET ids == spawns[b].ids
                n == Len(ids)
                out == spawns[b].output
                ok == { i \in 1..n : ChildSucceeded(ids[i]) }
            IN  /\ IsAggregate(out)
                /\ TotalOf(out) = n
                /\ SuccessfulOf(out) = Cardinality(ok)
                /\ FailedOf(out) = n - Cardinality(ok)
                /\ Len(ResultsOf(out)) = n
                /\ \A i \in 1..n :
                      /\ ResultsOf(out)[i].task_id = ids[i]
                      /\ ResultsOf(out)[i].success <=> i \in ok
                      /\ ResultsOf(out)[i].summary.text =
                            IF i \in ok THEN tasks[ids[i]].result ELSE tasks[ids[i]].error

\* a spawn call has returned whose second child completed, with success,
\* before its first child failed
C17_Witness ==
    \E b \in DOMAIN spawns :
        /\ spawns[b].returned
        /\ Len(spawns[b].ids) >= 2
        /\ tasks[spawns[b].ids[2]].completed_at < tasks[spawns[b].ids[1]].completed_at
        /\ ChildSucceeded(spawns[b].ids[2])
        /\ ~ChildSucceeded(spawns[b].ids[1])
        /\ SuccessfulOf(spawns[b].output) < TotalOf(spawns[b].output)

\* C18: every per-child summary string in a spawn result is at most 500
\* characters long, for successful and failed children alike, while the
\* child's full AgentResult stays retrievable from its SubagentTask record.
C18_SummariesWithinLimit ==
    \A b \in DOMAIN spawns :
        spawns[b].returned =>
            \A i \in DOMAIN spawns[b].results :
                LET t == spawns[b].ids[i]
                    summary == spawns[b].results[i].summary
                IN  /\ SummaryLength(summary) <= 500
                    /\ summary.text = IF ChildSucceeded(t) THEN tasks[t].result
                                      ELSE tasks[t].error

(***************************************************************************)
(* Properties of faults inside an iteration                                *)
(***************************************************************************)
\* the tool.execute call the step has just made
LastInvocation == invocations[Len(invocations)]

\* the step enters the body of a registered tool and the body raises
ToolBodyRaises ==
    /\ pc = "execute"
    /\ Len(invocations') = Len(invocations) + 1
    /\ LastInvocation'.outcome = "raised"

\* C21: if a registered tool's execute raises, the dispatcher converts the
\* fault to a failure result carrying the fault text, the loop records an
\* Observation with success=false and goes on to the next iteration; a tool
\* fault never ends the run.
C21_ToolFaultIsRecordedAndLoopContinues ==
    [][ToolBodyRaises =>
          /\ Len(observations') = Len(observations) + 1
          /\ LastObservation'.tool_name = decision.tool_name
          /\ ~LastObservation'.success
          /\ LastObservation'.output = None
          /\ LastObservation'.error = ToolFault
          /\ messages'[Len(messages')].content =
                <<"Tool:", decision.tool_name, "Error:">> \o ToolFault
          /\ pc' = "loop"
          /\ state' = "executing"
          /\ result' = result
          /\ iterations' = iterations]_vars

\* the iteration after the one whose tool body raised has asked the backend
\* for its decision
C21_Witness ==
    /\ iterations = 2
    /\ pc = "generate"
    /\ Len(invocations) = 1
    /\ invocations[1].outcome = "raised"
    /\ Len(observations) = 1
    /\ observations[1].error = ToolFault
    /\ result = NoResult

\* C22: if the model backend raises on iteration k, run() itself does not
\* raise: it returns an AgentResult with success=false, error set to the
\* fault description, iterations=k and the observations recorded so far, and
\* leaves the loop in state error.
C22_BackendFaultEndsRunWithErrorResult ==
    \A k \in DOMAIN llm_calls :
        llm_calls[k] = LLMFault =>
            /\ k = Len(llm_calls)
            /\ pc = "returned"
            /\ state = "error"
            /\ iterations = k
            /\ result = AgentResult(FALSE, EmptyString, observations, <<"llm", "fault">>, k)

\* the backend raised on the third iteration of a run that had recorded a
\* successful and a failed observation before
C22_Witness ==
    /\ Len(llm_calls) = 3
    /\ llm_calls[3] = LLMFault
    /\ pc = "returned"
    /\ Len(result.observations) = 2
    /\ result.observations[1].success
    /\ ~result.observations[2].success
    /\ result.iterations = 3

(***************************************************************************)
(* Properties of the extension lists                                       *)
(***************************************************************************)
\* the path asked about carries an extension that the SandboxConfig holds
\* in both of its lists
CarriesListedTwice(p) == Suffix(p) \in (allowed_extensions \cap blocked_extensions)

\* C23: for any extension that is in both the deny-list and the allow-list
\* of a SandboxConfig, is_extension_allowed returns false and validate_path
\* rejects every path carrying that extension inside an allowed root.
C23_DenyListOverridesAllowList ==
    /\ (path_query.callee = "extension" /\ CarriesListedTwice(path_query.path)) =>
          ~path_query.result
    /\ ( /\ path_query.callee = "validate"
         /\ CarriesListedTwice(path_query.path)
         /\ \E i \in DOMAIN sandbox_allowed_paths :
               IsRootOrAncestorOf(sandbox_allowed_paths[i], Resolve(path_query.path)) ) =>
          ~path_query.result

(***************************************************************************)
(* Properties of AgentLoop.state and of the lifecycle events               *)
(***************************************************************************)
\* the edges the state of a loop may follow
LoopStateEdges ==
    { <<"idle", "thinking">>, <<"thinking", "executing">>, <<"thinking", "complete">>,
      <<"thinking", "error">>, <<"executing", "thinking">>, <<"executing", "error">> }

\* C24: during any run, AgentLoop.state changes only along the edges
\* idle->thinking, thinking->executing, thinking->complete, thinking->error,
\* executing->thinking and executing->error (no other state is ever
\* entered), and when run() returns the state is complete if the result has
\* success=true and error otherwise.
C24_StateFollowsLoopEdges ==
    [][ /\ state' # state => <<state, state'>> \in LoopStateEdges
        /\ (pc' = "returned" /\ pc # "returned") =>
              state' = IF result'.success THEN "complete" ELSE "error" ]_vars

\* the step hands exactly one event, of that name, to _notify_callbacks
Emits(name) ==
    /\ Len(events') = Len(events) + 1
    /\ SubSeq(events', 1, Len(events)) = events
    /\ events'[Len(events')].name = name

\* the step is the exit of run() into that terminal state
ExitsInto(terminal) == pc # "returned" /\ pc' = "returned" /\ state' = terminal

\* C25: every state transition of a run emits exactly one lifecycle event of
\* the matching name to the observers, in transition order: 'thinking' at
\* the start of each iteration, 'executing' before each tool dispatch,
\* 'complete' on the success exit, and 'error' on every exit into the error
\* state.
C25_EveryTransitionEmitsItsEvent ==
    [][ /\ iterations' = iterations + 1 => Emits("thinking")
        /\ (pc # "execute" /\ pc' = "execute") => Emits("executing")
        /\ ExitsInto("complete") => Emits("complete")
        /\ ExitsInto("error") => Emits("error")
        /\ ( /\ iterations' = iterations
             /\ ~(pc # "execute" /\ pc' = "execute")
             /\ ~(pc # "returned" /\ pc' = "returned") ) => events' = events ]_vars

\* the AgentResult of a run as the replies of the backend and the tool
\* outcomes alone determine it, written from what the run has recorded: the
\* replies, the last decision, the observations and the budget
ResultWithoutObservers ==
    LET k == Len(llm_calls)
        last == llm_calls[k]
    IN  IF k > 0 /\ last = LLMFault
        THEN AgentResult(FALSE, EmptyString, observations, <<"llm", "fault">>, k)
        ELSE IF k > 0 /\ GetDecision(last, k).fault
        THEN AgentResult(FALSE, EmptyString, observations, GetDecision(last, k).error, k)
        ELSE IF k > 0 /\ GetDecision(last, k).decision.is_complete
        THEN AgentResult(TRUE,
                         IF GetDecision(last, k).decision.final_answer \in {None, EmptyString}
                         THEN <<"Task completed.">>
                         ELSE GetDecision(last, k).decision.final_answer,
                         observations, None, k)
        ELSE IF /\ k > 0
                /\ decision.tool_name \in DOMAIN Tools
                /\ Tools[decision.tool_name].requires_path_check
                /\ ~decision.tool_params.isdict
        THEN AgentResult(FALSE, EmptyString, observations, <<"AttributeError">>, k)
        ELSE AgentResult(FALSE, EmptyString, observations,
                         MaxIterationsError(max_iterations), max_iterations)

\* C26: an observer callback that raises on any event does not change the
\* AgentResult of the run (same success, output, error, iterations and
\* observations as without that observer), and the other registered
\* observers are still invoked for that event and for later events.
C26_RaisingObserverChangesNothing ==
    /\ DOMAIN received = DOMAIN callbacks
    /\ \A i \in DOMAIN callbacks : received[i] = events
    /\ pc = "returned" => result = ResultWithoutObservers

\* a run whose first observer raises on every event has recorded a failed
\* observation and returned success on its second iteration, and the second
\* observer was called with 'thinking', 'executing', 'thinking', 'complete'
C26_Witness ==
    /\ Len(callbacks) = 2
    /\ callbacks[1] = "raises"
    /\ callbacks[2] = "returns"
    /\ pc = "returned"
    /\ result.success
    /\ result.iterations = 2
    /\ Len(result.observations) = 1
    /\ [i \in DOMAIN received[2] |-> received[2][i].name] =
          <<"thinking", "executing", "thinking", "complete">>

(***************************************************************************)
(* Properties of add_observation and of eviction                           *)
(***************************************************************************)
\* the step is an add_observation call
AddsObservation == Len(observations') = Len(observations) + 1

LastMessage == messages[Len(messages)]

\* C27: after every add_observation call, for any ceiling >= 1 and any prior
\* history, the new Observation is the last element of the observation list
\* and the last stored message is the tool-role message synthesized from it,
\* carrying the tool name with the output when success is true and the error
\* when it is false.
C27_ObservationAndItsMessageComeLast ==
    [][AddsObservation =>
          /\ LastObservation' \in SampleObservations
          /\ LastMessage'.role = "tool"
          /\ LastMessage'.id = Len(appended')
          /\ LastMessage' = appended'[Len(appended')]
          /\ LastMessage'.content =
                IF LastObservation'.success
                THEN <<"Tool:", LastObservation'.tool_name, "Output:">> \o LastObservation'.output
                ELSE <<"Tool:", LastObservation'.tool_name, "Error:">> \o LastObservation'.error]_vars

\* a failed observation was added to a history that already held more
\* system messages than the ceiling allows, and its message is stored last
C27_Witness ==
    /\ max_history_length = 1
    /\ Cardinality({ i \in DOMAIN appended : IsSystem(appended[i]) }) >= 2
    /\ Len(observations) >= 1
    /\ ~LastObservation.success
    /\ LastMessage.role = "tool"
    /\ LastMessage.id = Len(appended)
    /\ LastMessage.content = <<"Tool:", "file", "Error:", "err">>

\* the messages add_observation has synthesized so far, evicted or not
SynthesizedSoFar == SelectSeq(appended, LAMBDA m : m.role = "tool" /\ Head(m.content) = "Tool:")

\* C28: the observation list of a Context is append-only: after any sequence
\* of appends its length equals the number of add_observation calls and
\* earlier entries are unchanged, even when eviction has dropped their
\* synthesized messages from the message list.
C28_ObservationsAreAppendOnly ==
    [][ /\ Len(observations') >= Len(observations)
        /\ SubSeq(observations', 1, Len(observations)) = observations
        /\ Len(observations') = Len(SynthesizedSoFar')
        /\ \A i \in DOMAIN observations' :
              SynthesizedSoFar'[i].content = ToolMessage(observations'[i]) ]_vars

\* three observations are on record, a successful one between two failed
\* ones, and eviction has dropped the messages of the first two
C28_Witness ==
    /\ Len(observations) = 3
    /\ ~observations[1].success
    /\ observations[2].success
    /\ ~observations[3].success
    /\ Cardinality({ i \in DOMAIN messages : messages[i] \in SeqToSet(SynthesizedSoFar) }) = 1

NonSystem(msgs) == SelectSeq(msgs, LAMBDA m : ~IsSystem(m))

\* the stored messages are a subsequence of the log: each is the log's entry
\* of its position, and positions go up strictly
StoredInLogOrder ==
    /\ \A i \in DOMAIN messages : messages[i] = appended[messages[i].id]
    /\ \A i, j \in DOMAIN messages : i < j => messages[i].id < messages[j].id

\* the stored non-system messages are the last (ceiling - systemCount) ones
\* of the log, or all of them when there are fewer
RecentNonSystemSurvive ==
    LET logged == NonSystem(appended)
        room == Max(max_history_length - Len(SelectSeq(appended, IsSystem)), 0)
    IN  NonSystem(messages) = PySliceFrom(logged, Len(logged) - Min(Len(logged), room))

\* C29: after any sequence of appends, the stored message list is a
\* subsequence of the full append-order log: eviction never reorders
\* surviving messages and never stores a message twice, and the surviving
\* non-system messages are the most recent (ceiling - systemCount) ones.
C29_StoredIsSubsequenceOfLog == StoredInLogOrder /\ RecentNonSystemSurvive

\* C30: eviction is idempotent: for every ceiling and every message list,
\* applying _trim_history a second time to the list it has just produced
\* leaves that list unchanged.
C30_EvictionIsIdempotent == TrimHistory(messages, max_history_length) = messages

(***************************************************************************)
(* C31: an iteration whose decision is not complete and names no tool      *)
(* invokes no tool and appends neither a message nor an observation, so    *)
(* the model call of the next iteration receives the rendered history the  *)
(* call of this iteration received.                                        *)
(***************************************************************************)
\* the decision the k-th model call of this run led to, if it led to one
DecisionOfCall(k) == GetDecision(llm_calls[k], k)

\* the k-th model call returned a decision that is not complete and names no tool
IdleCall(k) ==
    /\ llm_calls[k] \in Replies
    /\ ~DecisionOfCall(k).fault
    /\ ~DecisionOfCall(k).decision.is_complete
    /\ DecisionOfCall(k).decision.tool_name \in {NoTool, ""}

\* C31: a model call that follows an idle iteration receives what the call of
\* the idle iteration received, no tool is invoked in an idle iteration, and
\* once an idle iteration is over the ledger is what its model call saw
C31_IdleIterationHasNoSideEffects ==
    \A k \in DOMAIN llm_calls :
        IdleCall(k) =>
            /\ \A i \in DOMAIN invocations : invocations[i].iteration # k
            /\ (k + 1) \in DOMAIN llm_calls => llm_messages[k + 1] = llm_messages[k]
            /\ (k = Len(llm_calls) /\ pc \in {"loop", "generate", "returned"}) =>
                   GetMessagesForLLM(messages) = llm_messages[k]
            /\ pc # "execute" \/ k < Len(llm_calls)

C31_Witness ==
    /\ Len(llm_calls) = 3
    /\ IdleCall(2)
    /\ ~IdleCall(1)
    /\ Len(observations) = 1
    /\ llm_messages[3] = llm_messages[2]
    /\ llm_messages[2] # llm_messages[1]

(***************************************************************************)
(* C32: the children of one spawn call pass the admission gate in          *)
(* submission order: no subtask enters running before a subtask submitted  *)
(* earlier in the same batch has entered running.  Completion order is     *)
(* free.                                                                   *)
(***************************************************************************)
\* the execute_task coroutine of record t has passed 'async with self._semaphore'
EnteredRunning(t) == coro[t] \in {"running", "done"}

\* C32: of two records of one batch, the later submitted has entered running
\* only if the earlier submitted has
C32_GateIsPassedInSubmissionOrder ==
    \A t, u \in DOMAIN tasks :
        (t < u /\ tasks[t].batch = tasks[u].batch /\ EnteredRunning(u)) => EnteredRunning(t)

\* a batch of three behind a gate of two: the third record waited and entered
\* running after the first two, and the second is done while the first, which
\* entered before it, still runs
C32_Witness ==
    /\ Len(spawns) = 1
    /\ Len(tasks) = 3
    /\ max_concurrent = 2
    /\ coro[1] = "running"
    /\ coro[2] = "done"
    /\ coro[3] = "running"
    /\ sem_waiters = <<>>

(***************************************************************************)
(* SpecSiblings: the parent loop of one spawn call and the child loops     *)
(* execute_task starts for it, each run() with the Context it constructs.  *)
(* The lists a Context holds are objects on a heap, so that two Contexts   *)
(* holding one list is something a state can show.                         *)
(***************************************************************************)
MaxSiblings == 2       \* child loops of the spawn call
MaxLoopSteps == 1      \* observations one loop records

ParentLoop == 1

\* a Context whose lists are the ones every other Context holds
NewContextSharedDefaults(heap) ==
    [messages |-> 1, observations |-> 2,
     heap |-> IF heap = <<>> THEN << <<>>, <<>> >> ELSE heap]

\* Context(task=..., allowed_paths=...): field(default_factory=list) makes a
\* messages list and an observations list for this Context alone
NewContext(heap) ==
    [messages |-> Len(heap) + 1, observations |-> Len(heap) + 2,
     heap |-> heap \o << <<>>, <<>> >>]

\* list.append on the list object at address a
HeapAppend(heap, a, x) == [heap EXCEPT ![a] = Append(@, x)]

\* the run() of loop l came to: context = Context(...), the task message of
\* __post_init__ and the system prompt
StartedLoop(l, heap) ==
    LET made == NewContext(heap)
        user == [by |-> l, role |-> "user", content |-> <<"task">>]
        system == [by |-> l, role |-> "system", content |-> <<"SYSTEM_PROMPT">>]
    IN  [heap |-> HeapAppend(HeapAppend(made.heap, made.messages, user),
                             made.messages, system),
         loop |-> [pc |-> "loop", messages |-> made.messages,
                   observations |-> made.observations, steps |-> 0, batch |-> 0,
                   result |-> NoResult]]

InitSiblings ==
    /\ CtxFresh /\ SandboxFresh /\ LoopFresh /\ SubFresh /\ OrchFresh /\ CallFresh
    /\ BashFresh /\ NestFresh /\ ConnFresh
    /\ lists = <<>>
    /\ loops = <<>>

\* AgentLoop.run of the parent loop, up to its while loop
parent_run ==
    /\ loops = <<>>
    /\ lists' = StartedLoop(ParentLoop, lists).heap
    /\ loops' = <<StartedLoop(ParentLoop, lists).loop>>
    /\ UNCHANGED <<core_vars, bash_vars, nest_vars, conn_vars>>

\* the parent's decision names spawn_subagent with n subtasks: the dispatch
\* awaits spawn_and_wait
parent_spawns(n) ==
    /\ loops # <<>>
    /\ loops[ParentLoop].pc = "loop"
    /\ loops[ParentLoop].batch = 0
    /\ loops' = [loops EXCEPT ![ParentLoop].pc = "spawned", ![ParentLoop].batch = n]
    /\ UNCHANGED lists
    /\ UNCHANGED <<core_vars, bash_vars, nest_vars, conn_vars>>

\* execute_task: subagent = AgentLoop(...) and subagent.run(...) up to its
\* while loop
child_run ==
    /\ loops # <<>>
    /\ loops[ParentLoop].pc = "spawned"
    /\ Len(loops) - 1 < loops[ParentLoop].batch
    /\ lists' = StartedLoop(Len(loops) + 1, lists).heap
    /\ loops' = Append(loops, StartedLoop(Len(loops) + 1, lists).loop)
    /\ UNCHANGED <<core_vars, bash_vars, nest_vars, conn_vars>>

\* context.add_observation(observation) of loop l: the Observation joins the
\* observations list and its tool message the messages list
ObserveIn(l, heap, obs) ==
    HeapAppend(HeapAppend(heap, loops[l].observations, obs),
               loops[l].messages,
               [by |-> l, role |-> "tool", content |-> ToolMessage(obs)])

\* an iteration of loop l that dispatches a tool and records the Observation
loop_observes(l, success) ==
    /\ l \in DOMAIN loops
    /\ loops[l].pc = "loop"
    /\ loops[l].steps < MaxLoopSteps
    /\ lists' = ObserveIn(l, lists,
                          [by |-> l, tool_name |-> "file", success |-> success,
                           output |-> IF success THEN <<"out", ToString(l)>> ELSE None,
                           error |-> IF success THEN None ELSE <<"tool", "error">>])
    /\ loops' = [loops EXCEPT ![l].steps = @ + 1]
    /\ UNCHANGED <<core_vars, bash_vars, nest_vars, conn_vars>>

\* run() of loop l returns: AgentResult(observations=context.observations)
\* carries the Context's own list object
loop_returns(l, success) ==
    /\ l \in DOMAIN loops
    /\ loops[l].pc = "loop"
    /\ loops' = [loops EXCEPT
                   ![l].pc = "returned",
                   ![l].result = [success |-> success,
                                  output |-> <<"answer", ToString(l)>>,
                                  observations |-> loops[l].observations]]
    /\ UNCHANGED lists
    /\ UNCHANGED <<core_vars, bash_vars, nest_vars, conn_vars>>

\* every child's run() has returned: spawn_and_wait hands the parent the
\* summaries, and the parent records the Observation of the dispatch
parent_collects ==
    /\ loops # <<>>
    /\ loops[ParentLoop].pc = "spawned"
    /\ Len(loops) = 1 + loops[ParentLoop].batch
    /\ \A c \in DOMAIN loops : c # ParentLoop => loops[c].pc = "returned"
    /\ LET anyone == \E c \in DOMAIN loops : c # ParentLoop /\ loops[c].result.success
       IN  lists' = ObserveIn(ParentLoop, lists,
                              [by |-> ParentLoop, tool_name |-> "spawn_subagent",
                               success |-> anyone,
                               output |-> IF anyone THEN <<"total", ToString(Len(loops) - 1)>>
                                          ELSE None,
                               error |-> None])
    /\ loops' = [loops EXCEPT ![ParentLoop].pc = "loop"]
    /\ UNCHANGED <<core_vars, bash_vars, nest_vars, conn_vars>>

NextSiblings ==
    \/ parent_run
    \/ \E n \in 1..MaxSiblings : parent_spawns(n)
    \/ child_run
    \/ \E l \in 1..(MaxSiblings + 1), success \in BOOLEAN : loop_observes(l, success)
    \/ \E l \in 1..(MaxSiblings + 1), success \in BOOLEAN : loop_returns(l, success)
    \/ parent_collects

SpecSiblings == InitSiblings /\ [][NextSiblings]_vars

(***************************************************************************)
(* C33: every loop of a spawn call has a history of its own: what one      *)
(* child appends never shows in the messages, the observations or the      *)
(* AgentResult.observations of a sibling or of the parent.                 *)
(***************************************************************************)
\* everything in the list at address a was appended by loop l
AllBy(a, l) == \A i \in DOMAIN lists[a] : lists[a][i].by = l

\* C33: the messages, the observations and the returned observations of a
\* loop hold only what that loop appended, whatever the interleaving
C33_ChildHistoriesArePrivate ==
    \A l \in DOMAIN loops :
        /\ AllBy(loops[l].messages, l)
        /\ AllBy(loops[l].observations, l)
        /\ loops[l].pc = "returned" => AllBy(loops[l].result.observations, l)

\* two children and the parent have each recorded observations, the children
\* interleaved, and one child has returned while its sibling still runs
C33_Witness ==
    /\ Len(loops) = 3
    /\ loops[2].pc = "returned"
    /\ loops[3].pc = "loop"
    /\ \A l \in DOMAIN loops : Len(lists[loops[l].observations]) >= 1
    /\ Len(lists[loops[2].result.observations]) = 1
    /\ Len(lists[loops[3].messages]) = 3

(***************************************************************************)
(* SpecBash: BashTool.execute and its screening.  A command is a sequence  *)
(* of words and blanks; str.lower, str.strip, the in operator and          *)
(* shlex.split are computed on that sequence.                              *)
(***************************************************************************)
MaxBashCalls == 2      \* BashTool.execute calls on one tool

Blank == " "

\* str.lower() of one word
LowerWord(w) ==
    CASE w = "-R" -> "-r"
      [] w = "SUDO" -> "sudo"
      [] w = "LS" -> "ls"
      [] OTHER -> w

\* str.lower()
LowerText(text) == [i \in DOMAIN text |-> LowerWord(text[i])]

\* str.strip()
RECURSIVE StripLeft(_)
StripLeft(text) ==
    IF text # <<>> /\ Head(text) = Blank THEN StripLeft(Tail(text)) ELSE text

RECURSIVE StripRight(_)
StripRight(text) ==
    IF text # <<>> /\ text[Len(text)] = Blank
    THEN StripRight(SubSeq(text, 1, Len(text) - 1))
    ELSE text

Strip(text) == StripRight(StripLeft(text))

\* pattern in text
Contains(pattern, text) ==
    \E k \in 0..(Len(text) - Len(pattern)) :
        \A i \in DOMAIN pattern : text[k + i] = pattern[i]

\* shlex.split(command): the words between the blanks
ShlexSplit(command) == SelectSeq(command, LAMBDA w : w # Blank)

\* BashTool.DANGEROUS_COMMANDS
DANGEROUS_COMMANDS ==
    << <<"rm", Blank, "-rf", Blank, "/">>,
       <<"rm", Blank, "-rf", Blank, "~">>,
       <<"dd", Blank, "if=">>,
       <<"mkfs">>,
       <<":(){", Blank, ":|:&", Blank, "};:">>,
       <<">", Blank, "/dev/sda">>,
       <<"chmod", Blank, "-R", Blank, "777", Blank, "/">> >>

\* BashTool.BLOCKED_PATTERNS
BLOCKED_PATTERNS ==
    << <<"sudo">>,
       <<"su", Blank>>,
       <<"curl", Blank, "|", Blank, "bash">>,
       <<"wget", Blank, "|", Blank, "bash">>,
       <<"eval">> >>

\* the first index of a list whose pattern the text holds, 0 if none does
FirstMatch(patterns, text) ==
    IF \E i \in DOMAIN patterns : Contains(patterns[i], text)
    THEN CHOOSE i \in DOMAIN patterns :
            /\ Contains(patterns[i], text)
            /\ \A j \in 1..(i - 1) : ~Contains(patterns[j], text)
    ELSE 0

\* BashTool(allowed_commands=..., blocked_commands=...): None is <<"None">>
\* and blocked_commands or self.BLOCKED_PATTERNS
BashTool(allowed, blocked) ==
    [allowed_commands |-> allowed,
     blocked_commands |-> IF blocked = None \/ blocked = <<>> THEN BLOCKED_PATTERNS
                          ELSE blocked]

\* BashTool._is_command_safe
IsCommandSafe(command, tool) ==
    LET command_lower == Strip(LowerText(command))
        dangerous == FirstMatch(DANGEROUS_COMMANDS, command_lower)
        blocked == FirstMatch([i \in DOMAIN tool.blocked_commands |->
                                  LowerText(tool.blocked_commands[i])], command_lower)
        cmd_parts == ShlexSplit(command)
    IN  IF dangerous # 0
        THEN [safe |-> FALSE,
              error |-> <<"Dangerous command pattern detected:">>
                           \o DANGEROUS_COMMANDS[dangerous]]
        ELSE IF blocked # 0
        THEN [safe |-> FALSE,
              error |-> <<"Blocked command pattern:">> \o tool.blocked_commands[blocked]]
        ELSE IF /\ tool.allowed_commands # None
                /\ tool.allowed_commands # <<>>
                /\ cmd_parts # <<>>
                /\ \A i \in DOMAIN tool.allowed_commands :
                      tool.allowed_commands[i] # cmd_parts[1]
        THEN [safe |-> FALSE, error |-> <<"Command not in whitelist:", cmd_parts[1]>>]
        ELSE [safe |-> TRUE, error |-> None]

\* how the subprocess goes once it is started
SubprocessOutcomes == {"zero", "nonzero", "timeout", "raised"}

\* the ToolResult execute builds from a started subprocess
SubprocessResult(how) ==
    CASE how = "zero" -> ToolResult(TRUE, <<"stdout">>, None)
      [] how = "nonzero" -> ToolResult(FALSE, <<"stdout", "stderr">>, <<"stderr">>)
      [] how = "timeout" -> ToolResult(FALSE, None, <<"Command timed out">>)
      [] how = "raised" -> ToolResult(FALSE, None, <<"OSError">>)

\* BashTool.execute(command=...): whether create_subprocess_shell was
\* called, and the ToolResult returned
BashExecute(command, tool, how) ==
    IF command = <<>>
    THEN [started |-> FALSE, result |-> ToolResult(FALSE, None, <<"command is required">>)]
    ELSE IF ~IsCommandSafe(command, tool).safe
    THEN [started |-> FALSE,
          result |-> ToolResult(FALSE, None, IsCommandSafe(command, tool).error)]
    ELSE [started |-> how # "raised", result |-> SubprocessResult(how)]

\* the commands a decision may carry
BashCommands ==
    { <<>>,
      <<"ls">>,
      <<"sudo", Blank, "ls">>,
      <<"SUDO", Blank, "ls">>,
      <<"su", Blank>>,
      <<"rm", Blank, "-rf", Blank, "/">>,
      <<"chmod", Blank, "-R", Blank, "777", Blank, "/">> }

AllowLists == { None, <<"ls">>, <<"chmod", "sudo">> }
BlockLists == { None, <<>>, << <<"LS">> >> }

InitBash ==
    /\ CtxFresh /\ SandboxFresh /\ LoopFresh /\ SubFresh /\ OrchFresh /\ CallFresh
    /\ HeapFresh /\ NestFresh /\ ConnFresh
    /\ \E allowed \in AllowLists, blocked \in BlockLists :
          bash_tool = BashTool(allowed, blocked)
    /\ bash_calls = <<>>

\* await tool.execute(command=command)
bash_execute(command, how) ==
    /\ Len(bash_calls) < MaxBashCalls
    /\ bash_calls' = Append(bash_calls,
                            [command |-> command] @@ BashExecute(command, bash_tool, how))
    /\ UNCHANGED bash_tool
    /\ UNCHANGED <<core_vars, heap_vars, nest_vars, conn_vars>>

NextBash == \E command \in BashCommands, how \in SubprocessOutcomes : bash_execute(command, how)

SpecBash == InitBash /\ [][NextBash]_vars

(***************************************************************************)
(* C34: BashTool starts no subprocess for a command that holds a dangerous *)
(* or blocked pattern; it returns a failure that names the pattern, also   *)
(* when the command's first word is on the allowed_commands whitelist.     *)
(***************************************************************************)
\* the patterns of a list the command holds, whatever the case of either
HeldPatterns(patterns, command) ==
    { i \in DOMAIN patterns : Contains(LowerText(patterns[i]), LowerText(command)) }

\* the error names a pattern of the list that the command holds
NamesHeldPattern(error, patterns, command) ==
    \E i \in HeldPatterns(patterns, command) :
        /\ Len(error) > Len(patterns[i])
        /\ SubSeq(error, 2, Len(error)) = patterns[i]

\* C34: every executed command that holds a pattern of DANGEROUS_COMMANDS or
\* of the tool's blocked_commands started no subprocess and failed with an
\* error naming such a pattern
C34_ScreenedCommandsStartNoSubprocess ==
    \A k \in DOMAIN bash_calls :
        LET call == bash_calls[k]
            listed == DANGEROUS_COMMANDS \o bash_tool.blocked_commands
        IN  HeldPatterns(listed, call.command) # {} =>
                /\ ~call.started
                /\ ~call.result.success
                /\ NamesHeldPattern(call.result.error, listed, call.command)

(***************************************************************************)
(* C35: in the TaskOrchestrator a task that cancel_task cancelled while    *)
(* pending stays cancelled, whether its id was put on the queue before or  *)
(* after: the worker never sets it to running and never runs the agent     *)
(* loop for it.                                                            *)
(***************************************************************************)
\* the worker is inside agent_loop.run for task t
WorkerRuns(t) == worker_task.at = "run" /\ worker_task.task = t

\* C35: no step takes a cancelled task of the orchestrator to another status
\* or makes the worker run the agent loop for it
C35_CancelledTaskIsNeverRun ==
    [][\A t \in DOMAIN orch_tasks :
          orch_tasks[t].status = "cancelled" =>
              /\ orch_tasks'[t].status = "cancelled"
              /\ ~WorkerRuns(t)']_vars

(***************************************************************************)
(* SpecNested: child loops that inherit spawn_subagent.  execute_task      *)
(* hands the child loop the parent's tools, the SubagentTool of the same   *)
(* SubagentManager among them, so a child's decision may spawn on the gate *)
(* whose permit its own execute_task holds.                                *)
(***************************************************************************)
\* SubagentManager(agent_loop, max_concurrent=G), the spawn tool registered
InitNested ==
    /\ CtxFresh /\ SandboxFresh /\ LoopFresh /\ OrchFresh /\ CallFresh
    /\ HeapFresh /\ BashFresh /\ ConnFresh
    /\ max_concurrent \in 1..MaxGate
    /\ sem_value = max_concurrent
    /\ tasks = <<>>
    /\ sem_waiters = <<>>
    /\ sem_woken = {}
    /\ coro = <<>>
    /\ spawns = <<>>
    /\ now = 0
    /\ awaiting = {}

\* the child loop of record t, inside 'async with self._semaphore', takes a
\* spawn_subagent decision: SubagentTool.execute awaits spawn_and_wait on
\* the same manager
child_spawn(t, n) ==
    /\ t \in DOMAIN coro
    /\ coro[t] = "running"
    /\ Len(tasks) + n <= MaxTasks
    /\ tasks' = tasks \o [i \in 1..n |-> NewTask(Len(spawns) + 1)]
    /\ coro' = [coro EXCEPT ![t] = "awaiting"] \o [i \in 1..n |-> "ready"]
    /\ spawns' = Append(spawns, NewSpawn([i \in 1..n |-> Len(tasks) + i], FALSE))
    /\ awaiting' = awaiting \cup {<<t, Len(spawns) + 1>>}
    /\ UNCHANGED <<max_concurrent, now, sem_value, sem_waiters, sem_woken>>
    /\ UNCHANGED <<ctx_vars, path_vars, loop_vars, orch_vars, call_vars>>
    /\ UNCHANGED <<heap_vars, bash_vars, conn_vars>>

\* the spawn call the child awaited has returned: its loop goes on, the
\* permit still held
child_resumes(t) ==
    /\ t \in DOMAIN coro
    /\ coro[t] = "awaiting"
    /\ \E b \in DOMAIN spawns : <<t, b>> \in awaiting /\ spawns[b].returned
    /\ coro' = [coro EXCEPT ![t] = "running"]
    /\ awaiting' = { w \in awaiting : w[1] # t }
    /\ UNCHANGED <<max_concurrent, now, tasks, sem_value, sem_waiters, sem_woken, spawns>>
    /\ UNCHANGED <<ctx_vars, path_vars, loop_vars, orch_vars, call_vars>>
    /\ UNCHANGED <<heap_vars, bash_vars, conn_vars>>

NextNested ==
    \/ \E n \in 1..MaxBatch : spawn_and_wait(n)
    \/ \E t \in TaskIds : StartTask(t)
    \/ \E t \in TaskIds : ResumeTask(t)
    \/ \E t \in TaskIds, outcome \in ChildOutcomes : FinishTask(t, outcome)
    \/ \E b \in TaskIds : SpawnReturns(b)
    \/ \E t \in TaskIds, n \in 1..MaxBatch : child_spawn(t, n)
    \/ \E t \in TaskIds : child_resumes(t)

SpecNested == InitNested /\ [][NextNested]_vars

\* the event loop runs every coroutine that can run, and a child loop that is
\* not waiting for a spawn call comes to an end
FairSpecNested ==
    /\ SpecNested
    /\ \A t \in TaskIds : WF_vars(StartTask(t))
    /\ \A t \in TaskIds : WF_vars(ResumeTask(t))
    /\ \A t \in TaskIds : WF_vars(\E outcome \in ChildOutcomes : FinishTask(t, outcome))
    /\ \A b \in TaskIds : WF_vars(SpawnReturns(b))
    /\ \A t \in TaskIds : WF_vars(child_resumes(t))

(***************************************************************************)
(* C36: with child loops that may spawn on the SubagentManager they run    *)
(* under, every spawn call still returns in the end: children holding a    *)
(* permit while they wait for their own children never block the gate for  *)
(* good, whatever its size.                                                *)
(***************************************************************************)
\* C36: under fair scheduling every spawn call, the parent's and the
\* children's, eventually returns
C36_NestedSpawnCallsReturn ==
    \A b \in TaskIds : []((\E t \in DOMAIN tasks : tasks[t].batch = b) => <>HasReturned(b))

(***************************************************************************)
(* C37: when a spawn_subagent dispatch is back in the parent loop, with a  *)
(* success or with a failure result, every SubagentTask record the call    *)
(* created is completed, failed or cancelled: none is left pending or      *)
(* running, whatever the entries of the batch.                             *)
(***************************************************************************)
\* spawn call b is over for the parent loop: spawn_and_wait returned its
\* results, or raised and _execute_tool made a failure result of it
DispatchIsBack(b) == spawns[b].returned \/ spawns[b].raised

\* C37: every record of a spawn call that is back in the parent loop is in a
\* terminal status
C37_NoRecordLeftBehindByDispatch ==
    \A b \in DOMAIN spawns :
        DispatchIsBack(b) =>
            \A i \in DOMAIN spawns[b].ids : tasks[spawns[b].ids[i]].status \in Terminal

(***************************************************************************)
(* C38: a decision with is_complete true that also names a tool completes  *)
(* the run: the tool is not invoked, no Observation is recorded for it,    *)
(* and the result carries exactly the observations of the iterations       *)
(* before.                                                                 *)
(***************************************************************************)
\* the k-th model call returned a decision that is complete and names a tool
CompleteCallNamingTool(k) ==
    /\ llm_calls[k] \in Replies
    /\ ~DecisionOfCall(k).fault
    /\ DecisionOfCall(k).decision.is_complete
    /\ DecisionOfCall(k).decision.tool_name \notin {NoTool, ""}

\* the decisions before the k-th that named a tool without being complete
ToolCallsBefore(k) ==
    { j \in 1..(k - 1) :
        /\ ~DecisionOfCall(j).fault
        /\ ~DecisionOfCall(j).decision.is_complete
        /\ DecisionOfCall(j).decision.tool_name \notin {NoTool, ""} }

\* C38: a complete decision that names a tool is the last of its run, the run
\* has returned with success, nothing was invoked in its iteration, and the
\* observations returned are those of the earlier tool decisions and no more
C38_CompletionTakesPrecedenceOverTool ==
    \A k \in DOMAIN llm_calls :
        CompleteCallNamingTool(k) =>
            /\ k = Len(llm_calls)
            /\ pc = "returned"
            /\ result.success
            /\ \A i \in DOMAIN invocations : invocations[i].iteration # k
            /\ result.observations = observations
            /\ Len(result.observations) = Cardinality(ToolCallsBefore(k))

C38_Witness ==
    /\ Len(llm_calls) = 2
    /\ CompleteCallNamingTool(2)
    /\ Len(result.observations) = 1
    /\ Len(invocations) = 1
    /\ observations[1].tool_name = "file"

(***************************************************************************)
(* C39: for every run, AgentResult.iterations is the number of model calls *)
(* made, and AgentResult.observations holds one Observation for each       *)
(* decision that named a tool without being complete, in decision order;   *)
(* so there are never more observations than iterations.                   *)
(***************************************************************************)
\* the model calls of this run whose decision named a tool without being complete
ToolCalls ==
    { k \in DOMAIN llm_calls :
        /\ llm_calls[k] \in Replies
        /\ ~DecisionOfCall(k).fault
        /\ ~DecisionOfCall(k).decision.is_complete
        /\ DecisionOfCall(k).decision.tool_name \notin {NoTool, ""} }

\* the i-th smallest element of a set of numbers
RECURSIVE Nth(_, _)
Nth(set, i) ==
    LET least == CHOOSE x \in set : \A y \in set : x <= y
    IN  IF i = 1 THEN least ELSE Nth(set \ {least}, i - 1)

\* C39: a returned run counts one iteration per model call and returns one
\* observation per tool decision, the i-th observation being that of the
\* i-th tool decision
C39_IterationsAndObservationsAreCounted ==
    pc = "returned" =>
        /\ result.iterations = Len(llm_calls)
        /\ Len(result.observations) = Cardinality(ToolCalls)
        /\ \A i \in DOMAIN result.observations :
              LET d == DecisionOfCall(Nth(ToolCalls, i)).decision
              IN  /\ result.observations[i].tool_name = d.tool_name
                  /\ result.observations[i].input_params = d.tool_params
        /\ Len(result.observations) <= result.iterations

(***************************************************************************)
(* SpecBroadcast: ConnectionManager.  A broadcast is a for loop over       *)
(* self.active_connections that is suspended in every send_text; connect,  *)
(* disconnect and other broadcasts run in between.                         *)
(***************************************************************************)
MaxConnections == 3    \* WebSocket objects ever connected
MaxBroadcasts == 1     \* broadcast calls, each with a message of its own

\* a broadcast call: i is the index the list iterator has reached,
\* disconnected the local list of the connections whose send raised, steady
\* the connections registered ever since the call began
NewBroadcast(registered) ==
    [at |-> "loop", i |-> 0, disconnected |-> <<>>, steady |-> registered]

\* ConnectionManager.disconnect: what it makes of the list
Disconnect(active, websocket) ==
    IF websocket \in SeqToSet(active) THEN ListRemove(active, websocket) ELSE active

\* for conn in disconnected: self.disconnect(conn)
RECURSIVE DisconnectAll(_, _)
DisconnectAll(active, conns) ==
    IF conns = <<>> THEN active
    ELSE DisconnectAll(Disconnect(active, Head(conns)), Tail(conns))

\* what the broadcasts under way know of a connection that left the list
Unregister(calls, gone) ==
    [b \in DOMAIN calls |->
        IF calls[b].at = "loop" THEN [calls[b] EXCEPT !.steady = @ \ gone] ELSE calls[b]]

\* ConnectionManager()
InitBroadcast ==
    /\ CtxFresh /\ SandboxFresh /\ LoopFresh /\ SubFresh /\ OrchFresh /\ CallFresh
    /\ HeapFresh /\ BashFresh /\ NestFresh
    /\ active_connections = <<>>
    /\ broadcasts = <<>>
    /\ delivered = <<>>

\* ConnectionManager.connect: a new WebSocket is accepted and appended
connect ==
    /\ Len(delivered) < MaxConnections
    /\ active_connections' = Append(active_connections, Len(delivered) + 1)
    /\ delivered' = Append(delivered, <<>>)
    /\ UNCHANGED broadcasts
    /\ UNCHANGED <<core_vars, heap_vars, bash_vars, nest_vars>>

\* ConnectionManager.disconnect(websocket), as websocket_endpoint calls it
\* when the client has gone
disconnect(c) ==
    /\ c \in SeqToSet(active_connections)
    /\ active_connections' = Disconnect(active_connections, c)
    /\ broadcasts' = Unregister(broadcasts, {c})
    /\ UNCHANGED delivered
    /\ UNCHANGED <<core_vars, heap_vars, bash_vars, nest_vars>>

\* ConnectionManager.broadcast is called: disconnected = [] and the for loop
\* begins
broadcast ==
    /\ Len(broadcasts) < MaxBroadcasts
    /\ broadcasts' = Append(broadcasts, NewBroadcast(SeqToSet(active_connections)))
    /\ UNCHANGED <<active_connections, delivered>>
    /\ UNCHANGED <<core_vars, heap_vars, bash_vars, nest_vars>>

\* one round of the for loop of broadcast b: the list iterator hands out the
\* item at its index, send_text either delivers or raises, and the coroutine
\* is suspended in the send
broadcast_send(b, sent) ==
    /\ b \in DOMAIN broadcasts
    /\ broadcasts[b].at = "loop"
    /\ broadcasts[b].i < Len(active_connections)
    /\ LET connection == active_connections[broadcasts[b].i + 1]
       IN  /\ delivered' = IF sent
                           THEN [delivered EXCEPT ![connection] = Append(@, b)]
                           ELSE delivered
           /\ broadcasts' = [broadcasts EXCEPT
                               ![b].i = @ + 1,
                               ![b].disconnected = IF sent THEN @ ELSE Append(@, connection)]
    /\ UNCHANGED active_connections
    /\ UNCHANGED <<core_vars, heap_vars, bash_vars, nest_vars>>

\* the iterator of broadcast b is exhausted: every connection whose send
\* raised is disconnected, and broadcast returns
broadcast_returns(b) ==
    /\ b \in DOMAIN broadcasts
    /\ broadcasts[b].at = "loop"
    /\ broadcasts[b].i >= Len(active_connections)
    /\ active_connections' = DisconnectAll(active_connections, broadcasts[b].disconnected)
    /\ broadcasts' = [Unregister(broadcasts, SeqToSet(broadcasts[b].disconnected))
                         EXCEPT ![b].at = "done"]
    /\ UNCHANGED delivered
    /\ UNCHANGED <<core_vars, heap_vars, bash_vars, nest_vars>>

NextBroadcast ==
    \/ connect
    \/ \E c \in 1..MaxConnections : disconnect(c)
    \/ broadcast
    \/ \E b \in 1..MaxBroadcasts, sent \in BOOLEAN : broadcast_send(b, sent)
    \/ \E b \in 1..MaxBroadcasts : broadcast_returns(b)

SpecBroadcast == InitBroadcast /\ [][NextBroadcast]_vars

(***************************************************************************)
(* C40: a broadcast delivers its message exactly once to every connection  *)
(* that stays registered for the whole broadcast, also when a send to      *)
(* another connection fails or connections come and go while it is         *)
(* suspended in a send; a connection whose send fails is removed from      *)
(* active_connections.                                                     *)
(***************************************************************************)
\* how many times connection c was sent the message of broadcast b
TimesSent(c, b) == Cardinality({ k \in DOMAIN delivered[c] : delivered[c][k] = b })

\* the connections whose send raised during broadcast b
FailedIn(b) == SeqToSet(broadcasts[b].disconnected)

\* C40: when a broadcast has returned, every connection registered from its
\* beginning to its end whose send did not raise got the message once, nobody
\* got it twice, and at the return the connections whose send raised are off
\* the list
C40_BroadcastReachesEverySteadyConnectionOnce ==
    \A b \in DOMAIN broadcasts :
        /\ \A c \in DOMAIN delivered : TimesSent(c, b) <= 1
        /\ broadcasts[b].at = "done" =>
              /\ \A c \in broadcasts[b].steady \ FailedIn(b) : TimesSent(c, b) = 1
              /\ \A c \in FailedIn(b) : c \notin SeqToSet(active_connections)
====
